---- MODULE Spec2Model ----
(***************************************************************************)
(* Job-shop scheduling framework: the disjunctive-graph schedule           *)
(* representation (job chains and machine chains over operation steps),    *)
(* its topological sort, start-time propagation, dispatch and copy, and    *)
(* the priority-dispatch construction loop.                                *)
(*                                                                         *)
(* Two drafts of the solution class live in the repository and both are    *)
(* modelled: src/jsp (connect_job_op / connect_machine_op) and src/jsp_fwk *)
(* (pre_job_op / pre_machine_op property setters, cached sorted_ops).      *)
(***************************************************************************)
EXTENDS Integers, Sequences, FiniteSets, TLC

VARIABLES problem, draft, heap, direct_mode, last, run,
          sorted_ops, head_ops, pc, rule, graph, solver, report, bench

\* the state of a priority-dispatch solver: the cached topological order of
\* its solution, the frontier list of its loop, where it stands, its rule
solverVars == <<sorted_ops, head_ops, pc, rule>>

\* a DirectedGraph built edge by edge, a JSSolver with its worker threads,
\* what a JSProblem holds of the solutions reported to it, and a BenchMark
driverVars == <<graph, solver, report, bench>>

vars == <<problem, draft, heap, direct_mode, last, run, solverVars, driverVars>>

(***************************************************************************)
(* Bounds and inputs                                                       *)
(***************************************************************************)
\* largest processing time of an operation (durations range over 0..MaxDur)
MaxDur == 1

\* how many worker threads one solver object may start
MaxThreads == 2

\* how many times a run may dispatch a step that is already dispatched
MaxMoves == 1

\* the largest start time a solver assigns directly
MaxStart == 2

\* the number of calls made on a solution or its copy after copy()
MaxCalls == 1

\* the number of link and dispatch calls made on the steps of one solution
MaxLinks == 2

\* the number of add_edge calls that build one graph
MaxEdges == 3

\* the largest weight of a node in longest_path (weights range over 0..MaxWeight)
MaxWeight == 1

\* the largest number of cases (problems times solvers) of a benchmark
MaxCases == 3

\* job/machine layouts of the problems: a sequence of <<job id, machine id>>,
\* the order being the order of JSProblem.ops
Shapes ==
    { << <<1, 1>>, <<1, 2>>, <<2, 2>>, <<2, 1>> >>,
      << <<1, 1>>, <<2, 1>>, <<3, 1>> >>,
      << <<1, 1>>, <<1, 1>>, <<2, 1>> >> }

Durations == 0 .. MaxDur

\* the 2 jobs x 2 machines instance of the golden scenario:
\* J0 = [(M0, 3), (M1, 2)], J1 = [(M1, 4), (M0, 1)]
GoldenProblem ==
    << [job |-> 1, machine |-> 1, duration |-> 3],
       [job |-> 1, machine |-> 2, duration |-> 2],
       [job |-> 2, machine |-> 2, duration |-> 4],
       [job |-> 2, machine |-> 1, duration |-> 1] >>

Problems ==
    {GoldenProblem} \cup
    UNION { { [i \in 1 .. Len(sh) |->
                 [job |-> sh[i][1], machine |-> sh[i][2], duration |-> ds[i]]]
              : ds \in [1 .. Len(sh) -> Durations] }
            : sh \in Shapes }

(***************************************************************************)
(* Sequence helpers                                                        *)
(***************************************************************************)
Max(a, b) == IF a >= b THEN a ELSE b

Range(s) == { s[i] : i \in DOMAIN s }

\* list.index(x): position of the first occurrence, 0 when absent
IndexOf(s, x) ==
    IF \E i \in DOMAIN s : s[i] = x
    THEN CHOOSE i \in DOMAIN s : s[i] = x /\ \A k \in 1 .. i - 1 : s[k] # x
    ELSE 0

\* a local variable: F of the value x, which is computed once
Bind(x, F(_)) == CHOOSE out \in { F(y) : y \in {x} } : TRUE

\* keys of a dict filled in the order of s: the distinct elements of s in
\* order of first appearance
RECURSIVE Distinct(_)
Distinct(s) ==
    IF s = << >> THEN << >>
    ELSE LET r == Distinct(SubSeq(s, 1, Len(s) - 1))
             x == s[Len(s)]
         IN IF x \in Range(r) THEN r ELSE Append(r, x)

(***************************************************************************)
(* Domain objects and steps                                                *)
(***************************************************************************)
\* the two solution objects that can exist: the original and its copy
Owners == {"s", "c"}

\* the null reference
None == <<"none", "none", 0>>

\* id used for the missing job / machine of a virtual operation
NoId == 0

OpStep(w, i) == <<w, "op", i>>
JobStep(w, j) == <<w, "job", j>>
MachineStep(w, m) == <<w, "machine", m>>

\* JSSolution.ops
Ops(w) == [i \in 1 .. Len(problem) |-> OpStep(w, i)]

\* JSSolution.job_ops: one virtual step per job, in order of first appearance
JobOps(w) ==
    LET js == Distinct([i \in 1 .. Len(problem) |-> problem[i].job])
    IN [k \in 1 .. Len(js) |-> JobStep(w, js[k])]

\* JSSolution.machine_ops: one virtual step per machine
MachineOps(w) ==
    LET ms == Distinct([i \in 1 .. Len(problem) |-> problem[i].machine])
    IN [k \in 1 .. Len(ms) |-> MachineStep(w, ms[k])]

RealSteps(w) == Range(Ops(w))

Steps(w) == Range(Ops(w)) \cup Range(JobOps(w)) \cup Range(MachineOps(w))

AllSteps == UNION { Steps(w) : w \in Owners }

\* OperationStep.source: the operation, or the Job / Machine virtual operation
Source(o) ==
    IF o[2] = "op" THEN problem[o[3]]
    ELSE IF o[2] = "job" THEN [job |-> o[3], machine |-> NoId, duration |-> 0]
    ELSE [job |-> NoId, machine |-> o[3], duration |-> 0]

IsJobSentinel(o) == o # None /\ o[2] = "job"

\* OperationStep.end_time
EndTime(H, o) == H.start_time[o] + Source(o).duration

\* the result of a call that may raise: the heap it leaves and the exception
Ok(H) == [heap |-> H, exc |-> "none"]
Raised(H, e) == [heap |-> H, exc |-> e]

(***************************************************************************)
(* OperationStep: links                                                    *)
(***************************************************************************)
\* a connect_job_op that breaks the existing links before it compares the
\* jobs of the two steps
ConnectJobOpCheckLate(H, self, op) ==
    LET next_op == H.next_job_op[self]
        pj1 == IF next_op # None
               THEN [H.pre_job_op EXCEPT ![next_op] = None]
               ELSE H.pre_job_op
        pre_op == pj1[op]
        nj1 == IF pre_op # None
               THEN [H.next_job_op EXCEPT ![pre_op] = None]
               ELSE H.next_job_op
    IN IF Source(self).job # Source(op).job
       THEN Raised([H EXCEPT !.next_job_op = nj1, !.pre_job_op = pj1],
                   "JSPException")
       ELSE Ok([H EXCEPT !.next_job_op = [nj1 EXCEPT ![self] = op],
                         !.pre_job_op = [pj1 EXCEPT ![op] = self]])

\* OperationStep.connect_job_op: self -> op in the job chain
ConnectJobOp(H, self, op) ==
    IF Source(self).job # Source(op).job THEN Raised(H, "JSPException")
    ELSE
      LET next_op == H.next_job_op[self]
          pj1 == IF next_op # None
                 THEN [H.pre_job_op EXCEPT ![next_op] = None]
                 ELSE H.pre_job_op
          pre_op == pj1[op]
          nj1 == IF pre_op # None
                 THEN [H.next_job_op EXCEPT ![pre_op] = None]
                 ELSE H.next_job_op
      IN Ok([H EXCEPT !.next_job_op = [nj1 EXCEPT ![self] = op],
                      !.pre_job_op = [pj1 EXCEPT ![op] = self]])

\* a connect_machine_op that writes the links of the job chain
ConnectMachineOpJobLinks(H, self, op) ==
    IF self = op THEN Ok(H)
    ELSE IF Source(self).machine # Source(op).machine
    THEN Raised(H, "JSPException")
    ELSE
      LET next_op == H.next_job_op[self]
          pm1 == IF next_op # None
                 THEN [H.pre_job_op EXCEPT ![next_op] = None]
                 ELSE H.pre_job_op
          pre_op == pm1[op]
          nm1 == IF pre_op # None
                 THEN [H.next_job_op EXCEPT ![pre_op] = None]
                 ELSE H.next_job_op
      IN Ok([H EXCEPT !.next_job_op = [nm1 EXCEPT ![self] = op],
                      !.pre_job_op = [pm1 EXCEPT ![op] = self]])

\* OperationStep.connect_machine_op: self -> op in the machine chain
ConnectMachineOp(H, self, op) ==
    IF self = op THEN Ok(H)
    ELSE IF Source(self).machine # Source(op).machine
    THEN Raised(H, "JSPException")
    ELSE
      LET next_op == H.next_machine_op[self]
          pm1 == IF next_op # None
                 THEN [H.pre_machine_op EXCEPT ![next_op] = None]
                 ELSE H.pre_machine_op
          pre_op == pm1[op]
          nm1 == IF pre_op # None
                 THEN [H.next_machine_op EXCEPT ![pre_op] = None]
                 ELSE H.next_machine_op
      IN Ok([H EXCEPT !.next_machine_op = [nm1 EXCEPT ![self] = op],
                      !.pre_machine_op = [pm1 EXCEPT ![op] = self]])

\* the steps met walking next_machine_op from o; the walk of the code does not
\* end when a step repeats, which the flag `loops' records
RECURSIVE MachineWalk(_, _, _)
MachineWalk(H, o, seen) ==
    LET n == H.next_machine_op[o]
    IN IF n = None THEN [path |-> Append(seen, o), loops |-> FALSE]
       ELSE IF n \in Range(seen) \cup {o}
       THEN [path |-> Append(seen, o), loops |-> TRUE]
       ELSE MachineWalk(H, n, Append(seen, o))

\* a tail_machine_op that does not walk: it returns the step it is asked on
TailMachineOpNoWalk(H, o) == o

\* OperationStep.tail_machine_op
TailMachineOp(H, o) ==
    LET w == MachineWalk(H, o, << >>) IN w.path[Len(w.path)]

TailMachineOpTerminates(H, o) == ~ MachineWalk(H, o, << >>).loops

(***************************************************************************)
(* DirectedGraph                                                           *)
(***************************************************************************)
\* DirectedGraph.__init__: keys are the keys of the in-degree dict in
\* insertion order, adj_keys those of the adjacency dict, edges the appended
\* adjacency entries in call order
EmptyGraph == [keys |-> << >>, adj_keys |-> << >>, edges |-> << >>]

AppendNew(s, x) == IF x \in Range(s) THEN s ELSE Append(s, x)

\* DirectedGraph.add_edge
AddEdge(g, node_from, node_to) ==
    [keys |-> AppendNew(AppendNew(g.keys, node_from), node_to),
     adj_keys |-> AppendNew(g.adj_keys, node_from),
     edges |-> Append(g.edges, <<node_from, node_to>>)]

\* the adjacency list of a node, in append order
Adjacency(g, node) ==
    LET IsFrom(e) == e[1] = node
        es == SelectSeq(g.edges, IsFrom)
    IN [i \in 1 .. Len(es) |-> es[i][2]]

\* the in-degree add_edge has counted for a node
InDegree(g, node) == Cardinality({ i \in DOMAIN g.edges : g.edges[i][2] = node })

\* the inner loop of sort: decrement the in-degree of each adjacent node and
\* queue the ones that reach zero
RECURSIVE SortRelax(_, _, _, _)
SortRelax(adj, i, in_degrees, q) ==
    IF i > Len(adj) THEN [in_degrees |-> in_degrees, q |-> q]
    ELSE LET d == in_degrees[adj[i]] - 1
         IN SortRelax(adj, i + 1, [in_degrees EXCEPT ![adj[i]] = d],
                      IF d = 0 THEN Append(q, adj[i]) ELSE q)

\* the breadth-first loop of sort: res lists the nodes popped from the
\* queue, ok tells whether every in-degree is zero at the end
RECURSIVE SortBfs(_, _, _, _)
SortBfs(g, q, in_degrees, res) ==
    IF q = << >> THEN
        [res |-> res, ok |-> \A n \in DOMAIN in_degrees : in_degrees[n] = 0]
    ELSE LET node == Head(q)
             r == SortRelax(Adjacency(g, node), 1, in_degrees, Tail(q))
         IN SortBfs(g, r.q, r.in_degrees, Append(res, node))

\* the nodes of in-degree zero, in the order of the in-degree dict
ZeroInDegree(g) ==
    LET IsZero(n) == InDegree(g, n) = 0 IN SelectSeq(g.keys, IsZero)

\* the nodes sort pops from its queue
SortPopped(g) ==
    IF ZeroInDegree(g) = << >> THEN << >>
    ELSE SortBfs(g, ZeroInDegree(g), [n \in Range(g.keys) |-> InDegree(g, n)],
                 << >>).res

\* a sort without the final test of the in-degrees: it returns the nodes it
\* popped also when some node was left with a positive in-degree
SortUnchecked(g) ==
    LET in_degrees == [n \in Range(g.keys) |-> InDegree(g, n)]
        IsZero(n) == in_degrees[n] = 0
        q == SelectSeq(g.keys, IsZero)
    IN IF q = << >> THEN << >>
       ELSE SortBfs(g, q, in_degrees, << >>).res

\* DirectedGraph.sort: the topological order, << >> when there is none
Sort(g) ==
    LET in_degrees == [n \in Range(g.keys) |-> InDegree(g, n)]
        IsZero(n) == in_degrees[n] = 0
        q == SelectSeq(g.keys, IsZero)
    IN IF q = << >> THEN << >>
       ELSE Bind(SortBfs(g, q, in_degrees, << >>), LAMBDA b :
              IF b.ok THEN b.res ELSE << >>)

RECURSIVE AppendAllNew(_, _, _)
AppendAllNew(s, xs, i) ==
    IF i > Len(xs) THEN s ELSE AppendAllNew(AppendNew(s, xs[i]), xs, i + 1)

\* the graph sort leaves: reading self.__adjacency[node] of a popped node
\* adds the node to the keys of the adjacency defaultdict
AfterSort(g) == [g EXCEPT !.adj_keys = AppendAllNew(@, SortPopped(g), 1)]

\* path lengths: a number, float('inf') or float('-inf')
Num(v) == [inf |-> 0, v |-> v]
PlusInf == [inf |-> 1, v |-> 0]
MinusInf == [inf |-> 0 - 1, v |-> 0]

\* a < b on path lengths
LengthLess(a, b) ==
    IF a.inf # b.inf THEN a.inf < b.inf ELSE a.inf = 0 /\ a.v < b.v

\* the inner loop of longest_path: update the distance of each adjacent node
RECURSIVE PathRelax(_, _, _, _, _)
PathRelax(adj, j, dist, node, w) ==
    IF j > Len(adj) THEN dist
    ELSE LET new_length == Num(dist[node].v + w[adj[j]])
         IN PathRelax(adj, j + 1,
                      IF LengthLess(dist[adj[j]], new_length)
                      THEN [dist EXCEPT ![adj[j]] = new_length] ELSE dist,
                      node, w)

\* the loop of longest_path over the sorted nodes, from the i-th on
RECURSIVE PathLoop(_, _, _, _, _, _)
PathLoop(g, sorted_nodes, i, dist, node_to, w) ==
    IF i > Len(sorted_nodes) THEN dist
    ELSE LET node == sorted_nodes[i]
         IN IF dist[node] = MinusInf
            THEN PathLoop(g, sorted_nodes, i + 1, dist, node_to, w)
            ELSE IF node = node_to THEN dist
            ELSE PathLoop(g, sorted_nodes, i + 1,
                          PathRelax(Adjacency(g, node), 1, dist, node, w),
                          node_to, w)

\* DirectedGraph.longest_path(node_from, node_to, fun_weight): the graph it
\* leaves (its sort adds adjacency keys), the length, the exception
LongestPath(g, node_from, node_to, w) ==
    IF node_from \notin Range(g.adj_keys) \/ node_to \notin Range(g.adj_keys)
    THEN [graph |-> g, value |-> MinusInf, exc |-> "Exception"]
    ELSE Bind(AfterSort(g), LAMBDA g1 :
      Bind(Sort(g), LAMBDA sorted_nodes :
        IF sorted_nodes = << >>
        THEN [graph |-> g1, value |-> PlusInf, exc |-> "none"]
        ELSE [graph |-> g1,
              value |-> PathLoop(g, sorted_nodes, 1,
                                 [n \in Range(g1.adj_keys) |->
                                     IF n = node_from THEN Num(0) ELSE MinusInf],
                                 node_to, w)[node_to],
              exc |-> "none"]))

(***************************************************************************)
(* JSSolver (src/jsp): the object a caller thread drives                   *)
(***************************************************************************)
Threads == 1 .. MaxThreads

\* JSSolver.__init__: no solution, not running, status False, no thread;
\* a worker is "unborn" until solve creates it
NewSolver(has_problem) ==
    [has_problem |-> has_problem, running |-> FALSE, status |-> FALSE,
     solution |-> "none", thread |-> 0,
     workers |-> [t \in Threads |-> [pc |-> "unborn", failed |-> FALSE]],
     caller |-> "idle"]

NoSolver == NewSolver(FALSE)

\* what a JSProblem holds of the solutions reported to it: the solution set
\* last, whether a callback is registered, and for each call of the callback
\* the solution passed and problem.solution at that moment
NewReport(callback) == [solution |-> "none", callback |-> callback, calls |-> << >>]

NoReport == NewReport(FALSE)

\* a case (i, solver) of a BenchMark: its id, the status and the solution of
\* its solver (a copy with the problem set: status False, no solution), and
\* the runner thread in which solve and wait returned (0: none yet)
NewCase(i) == [id |-> i, status |-> FALSE, solution |-> "none", by |-> 0]

\* no case taken
NoCase == NewCase(0 - 1)

\* a BenchMark: the queue of case ids and its count of unfinished tasks, the
\* list of solved cases, the runner threads and the thread that calls run
NewBenchMark(num_problems, num_solvers, num_threads) ==
    [queue |-> [k \in 1 .. num_problems * num_solvers |-> NewCase(k - 1)],
     unfinished |-> num_problems * num_solvers,
     cases |-> num_problems * num_solvers,
     result |-> << >>,
     summary |-> << >>,
     num_threads |-> num_threads,
     started |-> 0,
     runner |-> [t \in Threads |-> [pc |-> "unborn", case |-> NoCase]],
     main |-> "ready"]

\* a state without a benchmark
NoBenchMark == NewBenchMark(0, 0, 0)

\* JSProblem.update_solution(solution)
UpdateSolution(r, solution) ==
    LET r1 == [r EXCEPT !.solution = solution]
    IN IF r1.callback
       THEN [r1 EXCEPT !.calls =
                Append(@, [solution |-> solution, current |-> r1.solution])]
       ELSE r1

(***************************************************************************)
(* JSSolution (src/jsp)                                                    *)
(***************************************************************************)
SourceNode(w) == <<w, "source", 0>>
SinkNode(w) == <<w, "sink", 0>>

\* the dummy nodes are steps without a source and without links
IsDummy(o) == o[2] \in {"source", "sink"}

\* a graph of the job chains only, without the edges of the machine chains
RECURSIVE BuildGraphJobEdges(_, _, _, _)
BuildGraphJobEdges(H, w, i, g) ==
    IF i > Len(Ops(w)) THEN [graph |-> g, exc |-> "none"]
    ELSE
      LET op == Ops(w)[i]
      IN IF H.pre_job_op[op] = None THEN [graph |-> g, exc |-> "AttributeError"]
         ELSE
           LET g1 == IF IsJobSentinel(H.pre_job_op[op])
                     THEN AddEdge(g, SourceNode(w), op) ELSE g
               g2 == IF H.next_job_op[op] # None
                     THEN AddEdge(g1, op, H.next_job_op[op])
                     ELSE AddEdge(g1, op, SinkNode(w))
           IN BuildGraphJobEdges(H, w, i + 1, g2)

\* the loop of topological_sort that builds the graph, from the i-th step on;
\* reading the source of a missing job predecessor raises
RECURSIVE BuildGraph(_, _, _, _)
BuildGraph(H, w, i, g) ==
    IF i > Len(Ops(w)) THEN [graph |-> g, exc |-> "none"]
    ELSE
      LET op == Ops(w)[i]
      IN IF H.pre_job_op[op] = None THEN [graph |-> g, exc |-> "AttributeError"]
         ELSE
           LET g1 == IF IsJobSentinel(H.pre_job_op[op])
                     THEN AddEdge(g, SourceNode(w), op) ELSE g
               g2 == IF H.next_job_op[op] # None
                     THEN AddEdge(g1, op, H.next_job_op[op])
                     ELSE AddEdge(g1, op, SinkNode(w))
               g3 == IF H.next_machine_op[op] # None
                        /\ H.next_machine_op[op] # H.next_job_op[op]
                     THEN AddEdge(g2, op, H.next_machine_op[op]) ELSE g2
           IN BuildGraph(H, w, i + 1, g3)

\* JSSolution.topological_sort: is_none when the property returns None
TopologicalSort(H, w) ==
    Bind(BuildGraph(H, w, 1, EmptyGraph), LAMBDA b :
      IF b.exc # "none" THEN [exc |-> b.exc, is_none |-> TRUE, ops |-> << >>]
      ELSE Bind(Sort(b.graph), LAMBDA ops :
             IF ops = << >> THEN [exc |-> "none", is_none |-> TRUE, ops |-> << >>]
             ELSE [exc |-> "none", is_none |-> FALSE,
                   ops |-> SubSeq(ops, 2, Len(ops) - 1)]))

\* OperationStep.update_start_time(start_time): set the start time directly
SetStartTime(H, o, t) == [H EXCEPT !.start_time[o] = t]

\* an update that looks at the job predecessor only
StepUpdateStartTimeJobOnly(H, o) ==
    IF IsDummy(o) \/ H.pre_machine_op[o] = None THEN Ok(H)
    ELSE IF H.pre_job_op[o] = None THEN Raised(H, "AttributeError")
    ELSE Ok([H EXCEPT !.start_time[o] = EndTime(H, H.pre_job_op[o])])

\* an update that takes the earlier of the two end times
StepUpdateStartTimeMin(H, o) ==
    IF IsDummy(o) \/ H.pre_machine_op[o] = None THEN Ok(H)
    ELSE IF H.pre_job_op[o] = None THEN Raised(H, "AttributeError")
    ELSE LET a == EndTime(H, H.pre_job_op[o])
             b == EndTime(H, H.pre_machine_op[o])
         IN Ok([H EXCEPT !.start_time[o] = IF a <= b THEN a ELSE b])

\* an update that looks at the machine predecessor only
StepUpdateStartTimeMachineOnly(H, o) ==
    IF IsDummy(o) \/ H.pre_machine_op[o] = None THEN Ok(H)
    ELSE IF H.pre_job_op[o] = None THEN Raised(H, "AttributeError")
    ELSE Ok([H EXCEPT !.start_time[o] = EndTime(H, H.pre_machine_op[o])])

\* OperationStep.update_start_time(): deduce the start time from the
\* predecessors in the job chain and the machine chain
StepUpdateStartTime(H, o) ==
    IF IsDummy(o) \/ H.pre_machine_op[o] = None THEN Ok(H)
    ELSE IF H.pre_job_op[o] = None THEN Raised(H, "AttributeError")
    ELSE Ok([H EXCEPT !.start_time[o] =
                Max(EndTime(H, H.pre_job_op[o]), EndTime(H, H.pre_machine_op[o]))])

\* a loop that updates sorted_ops[pos:] from the last step back to the first
RECURSIVE UpdateLoopReversed(_, _, _)
UpdateLoopReversed(H, order, i) ==
    IF i > Len(order) THEN Ok(H)
    ELSE LET r == UpdateLoopReversed(H, order, i + 1)
         IN IF r.exc # "none" THEN r ELSE StepUpdateStartTime(r.heap, order[i])

\* the loop of update_start_time over sorted_ops[pos:]
RECURSIVE UpdateLoop(_, _, _)
UpdateLoop(H, order, i) ==
    IF i > Len(order) THEN Ok(H)
    ELSE LET r == StepUpdateStartTime(H, order[i])
         IN IF r.exc # "none" THEN r ELSE UpdateLoop(r.heap, order, i + 1)

\* an update_start_time that does not stop when there is no topological
\* order: it then updates the steps in the order of self.ops
UpdateStartTimeNoStop(H, w, op) ==
    Bind(TopologicalSort(H, w), LAMBDA t :
      IF t.exc # "none" THEN [heap |-> H, ret |-> FALSE, exc |-> t.exc]
      ELSE Bind(IF t.is_none \/ t.ops = << >> THEN Ops(w) ELSE t.ops, LAMBDA ops :
        IF op # None /\ IndexOf(ops, op) = 0
        THEN [heap |-> H, ret |-> FALSE, exc |-> "ValueError"]
        ELSE LET pos == IF op = None THEN 1 ELSE IndexOf(ops, op)
             IN Bind(UpdateLoop(H, ops, pos), LAMBDA r :
                  [heap |-> r.heap, ret |-> (r.exc = "none"), exc |-> r.exc])))

\* JSSolution.update_start_time(op): ret is the returned boolean
UpdateStartTime(H, w, op) ==
    Bind(TopologicalSort(H, w), LAMBDA t :
      IF t.exc # "none" THEN [heap |-> H, ret |-> FALSE, exc |-> t.exc]
      ELSE IF t.is_none \/ t.ops = << >>
      THEN [heap |-> H, ret |-> FALSE, exc |-> "none"]
      ELSE IF op # None /\ IndexOf(t.ops, op) = 0
      THEN [heap |-> H, ret |-> FALSE, exc |-> "ValueError"]
      ELSE LET pos == IF op = None THEN 1 ELSE IndexOf(t.ops, op)
           IN Bind(UpdateLoop(H, t.ops, pos), LAMBDA r :
                [heap |-> r.heap, ret |-> (r.exc = "none"), exc |-> r.exc]))

\* JSSolution.machine_head / find(op.source.machine)
MachineHead(w, op) == MachineStep(w, Source(op).machine)

\* a dispatch that puts each step at the head of the machine chain, in front
\* of the steps already there, instead of at its tail
RECURSIVE DispatchLoopAtHead(_, _, _, _)
DispatchLoopAtHead(H, w, ops, i) ==
    IF i > Len(ops) THEN Ok(H)
    ELSE LET top == MachineHead(w, ops[i])
             first == H.next_machine_op[top]
             r == ConnectMachineOp(H, top, ops[i])
             r2 == IF first # None /\ first # ops[i]
                   THEN ConnectMachineOp(r.heap, ops[i], first) ELSE r
         IN IF r2.exc # "none" THEN r2
            ELSE DispatchLoopAtHead(r2.heap, w, ops, i + 1)

\* the loop of dispatch over the listed steps
RECURSIVE DispatchLoop(_, _, _, _)
DispatchLoop(H, w, ops, i) ==
    IF i > Len(ops) THEN Ok(H)
    ELSE LET top == MachineHead(w, ops[i])
             r == ConnectMachineOp(H, TailMachineOp(H, top), ops[i])
         IN IF r.exc # "none" THEN r ELSE DispatchLoop(r.heap, w, ops, i + 1)

\* JSSolution.dispatch(ops, update_time): ret is what the inner call of
\* update_start_time returned (dispatch itself drops it)
Dispatch(H, w, ops, update_time) ==
    Bind(DispatchLoop(H, w, ops, 1), LAMBDA d :
      IF d.exc # "none" THEN [heap |-> d.heap, ret |-> FALSE, exc |-> d.exc]
      ELSE IF update_time THEN UpdateStartTime(d.heap, w, ops[1])
      ELSE [heap |-> d.heap, ret |-> FALSE, exc |-> "none"])

\* a makespan that takes the end time of the last step of the list
MaxEndTimeLast(H, ops, i) == EndTime(H, ops[Len(ops)])

\* JSSolution.makespan over a non-empty list of steps
RECURSIVE MaxEndTime(_, _, _)
MaxEndTime(H, ops, i) ==
    IF i = Len(ops) THEN EndTime(H, ops[i])
    ELSE Max(EndTime(H, ops[i]), MaxEndTime(H, ops, i + 1))

\* JSSolution.makespan: max() of an empty sequence raises
Makespan(H, w) ==
    IF Len(Ops(w)) = 0 THEN [value |-> 0, exc |-> "ValueError"]
    ELSE [value |-> MaxEndTime(H, Ops(w), 1), exc |-> "none"]

\* OperationStep.__init__ for every step of one solution: no links, start 0
NewSteps(H, w) ==
    [pre_job_op |-> [o \in DOMAIN H.pre_job_op |->
                        IF o[1] = w THEN None ELSE H.pre_job_op[o]],
     next_job_op |-> [o \in DOMAIN H.next_job_op |->
                        IF o[1] = w THEN None ELSE H.next_job_op[o]],
     pre_machine_op |-> [o \in DOMAIN H.pre_machine_op |->
                        IF o[1] = w THEN None ELSE H.pre_machine_op[o]],
     next_machine_op |-> [o \in DOMAIN H.next_machine_op |->
                        IF o[1] = w THEN None ELSE H.next_machine_op[o]],
     start_time |-> [o \in DOMAIN H.start_time |->
                        IF o[1] = w THEN 0 ELSE H.start_time[o]]]

\* create_chain of __create_job_chain for the steps of one job, from pre on
RECURSIVE CreateChain(_, _, _, _)
CreateChain(H, pre, ops, i) ==
    IF i > Len(ops) THEN H
    ELSE CreateChain(ConnectJobOp(H, pre, ops[i]).heap, ops[i], ops, i + 1)

\* the steps of one job in the order of JSSolution.ops
OpsOfJob(w, job) ==
    LET SameJob(o) == Source(o).job = Source(job).job IN SelectSeq(Ops(w), SameJob)

\* JSSolution.__create_job_chain
RECURSIVE CreateJobChain(_, _, _)
CreateJobChain(H, w, k) ==
    IF k > Len(JobOps(w)) THEN H
    ELSE CreateJobChain(CreateChain(H, JobOps(w)[k], OpsOfJob(w, JobOps(w)[k]), 1),
                        w, k + 1)

\* JSSolution.__init__
NewSolution(H, w) == CreateJobChain(NewSteps(H, w), w, 1)

\* the memory before any solution exists
NoHeap ==
    [pre_job_op |-> [o \in AllSteps |-> None],
     next_job_op |-> [o \in AllSteps |-> None],
     pre_machine_op |-> [o \in AllSteps |-> None],
     next_machine_op |-> [o \in AllSteps |-> None],
     start_time |-> [o \in AllSteps |-> 0]]

\* step_map[o.source] of copy(): the step of solution w made for the same
\* operation or machine
Twin(w, o) == <<w, o[2], o[3]>>

\* a copy loop that links the new step behind the predecessor step of the
\* source solution itself instead of behind that step's counterpart
RECURSIVE CopyLoopShared(_, _, _, _)
CopyLoopShared(H, from, to, i) ==
    IF i > Len(Ops(from)) THEN Ok(H)
    ELSE LET pm == H.pre_machine_op[Ops(from)[i]]
         IN IF pm = None THEN CopyLoopShared(H, from, to, i + 1)
            ELSE LET r == ConnectMachineOp(H, pm, Ops(to)[i])
                 IN IF r.exc # "none" THEN r
                    ELSE CopyLoopShared(r.heap, from, to, i + 1)

\* the loop of copy() that rebuilds the machine chains: step_map holds the
\* real steps and the machine steps of the new solution
RECURSIVE CopyLoop(_, _, _, _)
CopyLoop(H, from, to, i) ==
    IF i > Len(Ops(from)) THEN Ok(H)
    ELSE LET pm == H.pre_machine_op[Ops(from)[i]]
         IN IF pm = None THEN CopyLoop(H, from, to, i + 1)
            ELSE IF pm[2] = "job" THEN Raised(H, "KeyError")
            ELSE LET r == ConnectMachineOp(H, Twin(to, pm), Ops(to)[i])
                 IN IF r.exc # "none" THEN r
                    ELSE CopyLoop(r.heap, from, to, i + 1)

\* JSSolution.copy: a new solution over the same operations (start times 0,
\* direct_mode left at the constructor's default), its machine chains
\* rebuilt, then update_start_time() on it
Copy(H, from, to) ==
    Bind(NewSolution(H, to), LAMBDA solution :
      Bind(CopyLoop(solution, from, to, 1), LAMBDA r :
        IF r.exc # "none" THEN [heap |-> r.heap, ret |-> FALSE, exc |-> r.exc]
        ELSE UpdateStartTime(r.heap, to, None)))

\* an imminent_ops that looks at the first step of each job only, without
\* walking down the job chain
ImminentOpsNoWalk(H, w) ==
    LET firsts == [k \in 1 .. Len(JobOps(w)) |->
                      IF H.next_job_op[JobOps(w)[k]] # None
                         /\ H.pre_machine_op[H.next_job_op[JobOps(w)[k]]] # None
                      THEN None ELSE H.next_job_op[JobOps(w)[k]]]
        Found(o) == o # None
    IN SelectSeq(firsts, Found)

\* the while loop of imminent_ops (src/jsp): down the job chain from op to
\* the first step without machine predecessor
RECURSIVE SkipDispatched(_, _)
SkipDispatched(H, op) ==
    IF op # None /\ H.pre_machine_op[op] # None
    THEN SkipDispatched(H, H.next_job_op[op]) ELSE op

\* JSSolution.imminent_ops (src/jsp)
ImminentOps(H, w) ==
    LET firsts == [k \in 1 .. Len(JobOps(w)) |->
                      SkipDispatched(H, H.next_job_op[JobOps(w)[k]])]
        Found(o) == o # None
    IN SelectSeq(firsts, Found)

\* the job-chain loop of is_feasible from step op on: no step starts before
\* ref, the end of the step before it
RECURSIVE JobChainValid(_, _, _)
JobChainValid(H, op, ref) ==
    IF op = None THEN TRUE
    ELSE IF H.start_time[op] < ref THEN FALSE
    ELSE JobChainValid(H, H.next_job_op[op], EndTime(H, op))

\* the steps of one machine in the order of JSSolution.ops
OpsOfMachine(w, m) ==
    LET SameMachine(o) == Source(o).machine = Source(m).machine
    IN SelectSeq(Ops(w), SameMachine)

\* list.sort(key=start_time): a stable sort, steps with equal start times
\* keep their order
SortByStartTime(H, ops) ==
    LET Before(i, j) == \/ H.start_time[ops[i]] < H.start_time[ops[j]]
                        \/ H.start_time[ops[i]] = H.start_time[ops[j]] /\ i < j
        Rank(i) == Cardinality({ j \in DOMAIN ops : Before(j, i) }) + 1
    IN [r \in DOMAIN ops |-> ops[CHOOSE i \in DOMAIN ops : Rank(i) = r]]

\* the machine loop of is_feasible over the sorted steps, from the i-th on
RECURSIVE SortedValid(_, _, _, _)
SortedValid(H, ops, i, ref) ==
    IF i > Len(ops) THEN TRUE
    ELSE IF H.start_time[ops[i]] < ref THEN FALSE
    ELSE SortedValid(H, ops, i + 1, EndTime(H, ops[i]))

\* the two validations of is_feasible on the start times as they are
ChainsValid(H, w) ==
    /\ \A k \in DOMAIN JobOps(w) :
          JobChainValid(H, H.next_job_op[JobOps(w)[k]], 0)
    /\ \A k \in DOMAIN MachineOps(w) :
          SortedValid(H, SortByStartTime(H, OpsOfMachine(w, MachineOps(w)[k])), 1, 0)

\* JSSolution.is_feasible: update_start_time() first unless in direct mode
\* (its returned boolean is dropped), then the two validations
IsFeasible(H, w, direct) ==
    Bind(IF direct THEN [heap |-> H, ret |-> TRUE, exc |-> "none"]
         ELSE UpdateStartTime(H, w, None), LAMBDA u :
      IF u.exc # "none" THEN [heap |-> u.heap, ret |-> FALSE, exc |-> u.exc]
      ELSE [heap |-> u.heap, ret |-> ChainsValid(u.heap, w), exc |-> "none"])

(***************************************************************************)
(* JSSolution and steps of the earlier draft (src/jsp_fwk)                 *)
(***************************************************************************)
\* JobStep.pre_job_op setter: self.pre_job_op = op, and op.next_job_op = self
FwkSetPreJobOp(H, self, op) ==
    LET H1 == [H EXCEPT !.pre_job_op[self] = op]
    IN IF op # None THEN [H1 EXCEPT !.next_job_op[op] = self] ELSE H1

\* MachineStep.pre_machine_op setter
FwkSetPreMachineOp(H, self, op) ==
    LET H1 == [H EXCEPT !.pre_machine_op[self] = op]
    IN IF op # None THEN [H1 EXCEPT !.next_machine_op[op] = self] ELSE H1

\* create_chain of JSSolution.__create_job_chain
RECURSIVE FwkCreateChain(_, _, _, _)
FwkCreateChain(H, pre, ops, i) ==
    IF i > Len(ops) THEN H
    ELSE FwkCreateChain(FwkSetPreJobOp(H, ops[i], pre), ops[i], ops, i + 1)

\* JSSolution.__create_job_chain
RECURSIVE FwkCreateJobChain(_, _, _)
FwkCreateJobChain(H, w, k) ==
    IF k > Len(JobOps(w)) THEN H
    ELSE FwkCreateJobChain(
            FwkCreateChain(H, JobOps(w)[k], OpsOfJob(w, JobOps(w)[k]), 1), w, k + 1)

\* JSSolution.__init__
FwkNewSolution(H, w) == FwkCreateJobChain(NewSteps(H, w), w, 1)

\* the value of sorted_ops: None, or a list of steps
NoSortedOps == [is_none |-> TRUE, ops |-> << >>]

\* the truth value of sorted_ops
HasSortedOps(so) == ~ so.is_none /\ so.ops # << >>

\* the loop of JSSolution.__update_graph that builds the graph
RECURSIVE FwkBuildGraph(_, _, _, _)
FwkBuildGraph(H, w, i, g) ==
    IF i > Len(Ops(w)) THEN g
    ELSE
      LET op == Ops(w)[i]
          g1 == IF H.pre_job_op[op] = None \/ H.pre_job_op[op][2] # "op"
                THEN AddEdge(g, SourceNode(w), op) ELSE g
          g2 == IF H.next_job_op[op] # None
                THEN AddEdge(g1, op, H.next_job_op[op])
                ELSE AddEdge(g1, op, SinkNode(w))
          g3 == IF H.next_machine_op[op] # None
                   /\ H.next_machine_op[op] # H.next_job_op[op]
                THEN AddEdge(g2, op, H.next_machine_op[op]) ELSE g2
      IN FwkBuildGraph(H, w, i + 1, g3)

\* JSSolution.__update_graph: the new value of sorted_ops
FwkUpdateGraph(H, w) ==
    Bind(Sort(FwkBuildGraph(H, w, 1, EmptyGraph)), LAMBDA ops :
      IF ops = << >> THEN NoSortedOps
      ELSE [is_none |-> FALSE, ops |-> SubSeq(ops, 2, Len(ops) - 1)])

\* JSSolution.evaluate(op): the heap, the new sorted_ops, the returned boolean
FwkEvaluate(H, w, op) ==
    Bind(FwkUpdateGraph(H, w), LAMBDA so :
      IF ~ HasSortedOps(so)
      THEN [heap |-> H, sorted_ops |-> so, ret |-> FALSE, exc |-> "none"]
      ELSE IF op # None /\ IndexOf(so.ops, op) = 0
      THEN [heap |-> H, sorted_ops |-> so, ret |-> FALSE, exc |-> "ValueError"]
      ELSE LET pos == IF op = None THEN 1 ELSE IndexOf(so.ops, op)
           IN Bind(UpdateLoop(H, so.ops, pos), LAMBDA r :
                [heap |-> r.heap, sorted_ops |-> so, ret |-> (r.exc = "none"),
                 exc |-> r.exc]))

\* JSSolution.dispatch(op)
FwkDispatch(H, w, op) ==
    LET pre_machine_op == TailMachineOp(H, MachineHead(w, op))
    IN FwkEvaluate(FwkSetPreMachineOp(H, op, pre_machine_op), w, op)

\* the loops of is_feasible (src/jsp_fwk) over a sorted list of steps, from
\* the i-th on: no step ends at or before ref, the end of the step before it
RECURSIVE FwkSortedValid(_, _, _, _)
FwkSortedValid(H, ops, i, ref) ==
    IF i > Len(ops) THEN TRUE
    ELSE IF EndTime(H, ops[i]) <= ref THEN FALSE
    ELSE FwkSortedValid(H, ops, i + 1, EndTime(H, ops[i]))

\* JSSolution.is_feasible (src/jsp_fwk): True when there is a cached
\* topological order, else the job lists in id order and the machine lists
\* sorted by start time are validated
FwkIsFeasible(H, w, so) ==
    IF HasSortedOps(so) THEN TRUE
    ELSE /\ \A k \in DOMAIN JobOps(w) :
              FwkSortedValid(H, OpsOfJob(w, JobOps(w)[k]), 1, 0)
         /\ \A k \in DOMAIN MachineOps(w) :
              FwkSortedValid(H, SortByStartTime(H, OpsOfMachine(w, MachineOps(w)[k])),
                             1, 0)

\* an estimate that looks at the job predecessor only
FwkEstimatedStartTimeJobOnly(H, w, op) == EndTime(H, H.pre_job_op[op])

\* JSSolution.estimated_start_time(op)
FwkEstimatedStartTime(H, w, op) ==
    Max(EndTime(H, H.pre_job_op[op]), EndTime(H, TailMachineOp(H, MachineHead(w, op))))

\* the walk of imminent_ops down one job chain to the first undispatched step
RECURSIVE FirstUndispatched(_, _)
FirstUndispatched(H, op) ==
    IF op # None /\ H.pre_machine_op[op] # None
    THEN FirstUndispatched(H, H.next_job_op[op]) ELSE op

\* an imminent_ops that returns every undispatched step
FwkImminentOpsAll(H, w) ==
    LET Undispatched(o) == H.pre_machine_op[o] = None IN SelectSeq(Ops(w), Undispatched)

\* JSSolution.imminent_ops
FwkImminentOps(H, w) ==
    LET firsts == [k \in 1 .. Len(JobOps(w)) |->
                      FirstUndispatched(H, H.next_job_op[JobOps(w)[k]])]
        Found(o) == o # None
    IN SelectSeq(firsts, Found)

(***************************************************************************)
(* The solution under construction: calls on JSSolution (src/jsp)          *)
(***************************************************************************)
\* what is remembered of the last call: its name, the solution it was made
\* on, its step argument, what the update_start_time it ran returned ("true",
\* "false", or "skipped" when it ran none), the exception it raised, and
\* whether it repeats the call before it
Call(name, w, op, ret, exc) ==
    [call |-> name, owner |-> w, self |-> None, op |-> op, ret |-> ret,
     exc |-> exc,
     repeat |-> (last.call = name /\ last.owner = w /\ last.op = op)]

\* a call of a method of step self
CallOn(self, name, w, op, ret, exc) ==
    [Call(name, w, op, ret, exc) EXCEPT !.self = self]

\* no call yet
NoCall ==
    [call |-> "init", owner |-> "s", self |-> None, op |-> None,
     ret |-> "skipped", exc |-> "none", repeat |-> FALSE]

\* the returned boolean as remembered in last.ret
Returned(r) == IF r.exc # "none" THEN "raised" ELSE IF r.ret THEN "true" ELSE "false"

\* the history of the run so far: every dispatch propagated (timed), every
\* dispatched step had its job predecessor dispatched before it (frontier);
\* n counts the dispatch calls, moves those on steps already dispatched;
\* order lists the dispatched steps where a scenario fixes their order
NewRun ==
    [timed |-> TRUE, frontier |-> TRUE, n |-> 0, moves |-> 0, order |-> << >>]

\* so far only undispatched steps were dispatched
AppendOnly == run.moves = 0

Dispatched(H, o) == H.pre_machine_op[o] # None

\* a step of the frontier: not dispatched, its job predecessor is the job
\* step or is dispatched
IsFrontier(H, o) ==
    /\ ~ Dispatched(H, o)
    /\ H.pre_job_op[o] # None
    /\ (IsJobSentinel(H.pre_job_op[o]) \/ Dispatched(H, H.pre_job_op[o]))

Init ==
    /\ problem \in Problems
    /\ draft = "jsp"
    /\ heap = NewSolution(NoHeap, "s")
    /\ direct_mode = [w \in Owners |-> FALSE]
    /\ last = NoCall
    /\ run = NewRun
    /\ sorted_ops = NoSortedOps
    /\ head_ops = << >>
    /\ pc = "idle"
    /\ rule = "none"
    /\ graph = EmptyGraph
    /\ solver = NoSolver
    /\ report = NoReport
    /\ bench = NoBenchMark

\* solution.dispatch(op, update_time) on one real step
DoDispatch(op, update_time) ==
    /\ TailMachineOpTerminates(heap, MachineHead("s", op))
    /\ Dispatched(heap, op) => run.moves < MaxMoves
    /\ \E r \in {Dispatch(heap, "s", <<op>>, update_time)} :
          /\ heap' = r.heap
          /\ last' = Call("dispatch", "s", op,
                          IF update_time THEN Returned(r) ELSE "skipped", r.exc)
          /\ run' = [timed |-> run.timed /\ update_time,
                     frontier |-> run.frontier /\ IsFrontier(heap, op),
                     n |-> run.n + 1,
                     moves |-> IF Dispatched(heap, op) THEN run.moves + 1
                               ELSE run.moves,
                     order |-> run.order]
    /\ UNCHANGED <<problem, draft, direct_mode, solverVars, driverVars>>

\* solution.update_start_time()
DoUpdateStartTime ==
    /\ \E r \in {UpdateStartTime(heap, "s", None)} :
          /\ heap' = r.heap
          /\ last' = Call("update_start_time", "s", None, Returned(r), r.exc)
    /\ UNCHANGED <<problem, draft, direct_mode, run, solverVars, driverVars>>

Next ==
    \/ \E op \in RealSteps("s") : \E update_time \in BOOLEAN :
          DoDispatch(op, update_time)
    \/ DoUpdateStartTime

Spec == Init /\ [][Next]_vars

TypeOK ==
    /\ problem \in Problems
    /\ \A o \in AllSteps : heap.start_time[o] \in Nat

(***************************************************************************)
(* Dispatching rules and the priority-dispatch solver (src/jsp_fwk)        *)
(***************************************************************************)
\* DisPatchingRules.PT
PT(H, w, op) == Source(op).duration

\* DisPatchingRules.PS
PS(H, w, op) == Len(OpsOfJob(w, op))

RECURSIVE SumDurations(_, _)
SumDurations(ops, i) ==
    IF i > Len(ops) THEN 0 ELSE Source(ops[i]).duration + SumDurations(ops, i + 1)

\* DisPatchingRules.TPT
TPT(H, w, op) == SumDurations(OpsOfJob(w, op), 1)

\* DisPatchingRules.CT
CT(H, w, op) == EndTime(H, H.pre_job_op[op])

\* DisPatchingRules.WT
WT(H, w, op) ==
    LET arrive_time == EndTime(H, H.pre_job_op[op])
        machine_time == EndTime(H, TailMachineOp(H, MachineHead(w, op)))
    IN Max(machine_time - arrive_time, 0)

\* DisPatchingRules.TWR
RECURSIVE TWR(_, _, _)
TWR(H, w, ref) ==
    IF ref = None THEN 0 ELSE Source(ref).duration + TWR(H, w, H.next_job_op[ref])

\* DisPatchingRules.EST
EST(H, w, op) == FwkEstimatedStartTime(H, w, op)

\* the names DisPatchingRules.get resolves to a rule
RuleNames ==
    {"SPT", "LPT", "SPS", "LPS", "STPT", "LTPT", "ECT", "LCT", "SWT", "LWT",
     "LTWR", "MTWR", "EST", "LST", "HH", "IHH"}

\* the rules of a solver: a named rule, or a function of the user, which may
\* rank the steps of the frontier in any way
Rules == RuleNames \cup {"USER"}

\* the key a rule gives a step, as <<k, num, den>> for the tuple (k, num/den);
\* a number k is <<k, 0, 1>>; den = 0 is a division by zero
RuleKey(r, H, w, op) ==
    CASE r = "SPT" -> <<PT(H, w, op), 0, 1>>
      [] r = "LPT" -> <<0 - PT(H, w, op), 0, 1>>
      [] r = "SPS" -> <<PS(H, w, op), 0, 1>>
      [] r = "LPS" -> <<0 - PS(H, w, op), 0, 1>>
      [] r = "STPT" -> <<TPT(H, w, op), 0, 1>>
      [] r = "LTPT" -> <<0 - TPT(H, w, op), 0, 1>>
      [] r = "ECT" -> <<CT(H, w, op), 0, 1>>
      [] r = "LCT" -> <<0 - CT(H, w, op), 0, 1>>
      [] r = "SWT" -> <<WT(H, w, op), 0, 1>>
      [] r = "LWT" -> <<0 - WT(H, w, op), 0, 1>>
      [] r = "LTWR" -> <<TWR(H, w, op), 0, 1>>
      [] r = "MTWR" -> <<0 - TWR(H, w, op), 0, 1>>
      [] r = "EST" -> <<EST(H, w, op), 0, 1>>
      [] r = "LST" -> <<0 - EST(H, w, op), 0, 1>>
      [] r = "HH" -> <<EST(H, w, op),
                       0 - (2 * TWR(H, w, op) - 3 * Source(op).duration), 2>>
      [] r = "IHH" -> <<EST(H, w, op), 0 - TWR(H, w, op), Source(op).duration>>
      [] OTHER -> <<0, 0, 1>>

\* the order of keys: numbers by value, tuples lexicographically
KeyLess(a, b) ==
    \/ a[1] < b[1]
    \/ a[1] = b[1] /\ a[2] * b[3] < b[2] * a[3]

\* min returning the last step with the least key instead of the first
MinPositionsLast(r, H, w, ops) ==
    IF r = "USER" THEN DOMAIN ops
    ELSE { i \in DOMAIN ops :
             /\ \A j \in DOMAIN ops :
                   ~ KeyLess(RuleKey(r, H, w, ops[j]), RuleKey(r, H, w, ops[i]))
             /\ \A j \in i + 1 .. Len(ops) :
                   KeyLess(RuleKey(r, H, w, ops[i]), RuleKey(r, H, w, ops[j])) }

\* min(head_ops, key=rule): the positions min can return; the first step with
\* the least key for a named rule, any step for a function of the user
MinPositions(r, H, w, ops) ==
    IF r = "USER" THEN DOMAIN ops
    ELSE { i \in DOMAIN ops :
             /\ \A j \in DOMAIN ops :
                   ~ KeyLess(RuleKey(r, H, w, ops[j]), RuleKey(r, H, w, ops[i]))
             /\ \A j \in 1 .. i - 1 :
                   KeyLess(RuleKey(r, H, w, ops[i]), RuleKey(r, H, w, ops[j])) }

\* computing the keys of the frontier raises ZeroDivisionError
KeysRaise(r, H, w, ops) == \E i \in DOMAIN ops : RuleKey(r, H, w, ops[i])[3] = 0

\* an update of the frontier list that drops the dispatched step and puts
\* its job successor at the end of the list
NextHeadOpsAtEnd(H, ops, pos) ==
    LET next_job_op == H.next_job_op[ops[pos]]
        rest == SubSeq(ops, 1, pos - 1) \o SubSeq(ops, pos + 1, Len(ops))
    IN IF next_job_op = None THEN rest ELSE Append(rest, next_job_op)

\* solving_iteration: the update of the frontier list after dispatching the
\* step at position pos
NextHeadOps(H, ops, pos) ==
    LET next_job_op == H.next_job_op[ops[pos]]
    IN IF next_job_op = None
       THEN SubSeq(ops, 1, pos - 1) \o SubSeq(ops, pos + 1, Len(ops))
       ELSE [ops EXCEPT ![pos] = next_job_op]

InitPD ==
    /\ problem \in Problems
    /\ draft = "jsp_fwk"
    /\ rule \in Rules
    /\ graph = EmptyGraph
    /\ solver = NoSolver
    /\ report \in {NewReport(callback) : callback \in BOOLEAN}
    /\ bench = NoBenchMark
    /\ heap = NoHeap
    /\ direct_mode = [w \in Owners |-> FALSE]
    /\ last = NoCall
    /\ run = NewRun
    /\ sorted_ops = NoSortedOps
    /\ head_ops = << >>
    /\ pc = "ready"

\* do_solve up to the loop: build the solution and collect the frontier
PDStart ==
    /\ pc = "ready"
    /\ heap' = FwkNewSolution(NoHeap, "s")
    /\ head_ops' = FwkImminentOps(heap', "s")
    /\ pc' = "loop"
    /\ last' = Call("imminent_ops", "s", None, "skipped", "none")
    /\ UNCHANGED <<problem, draft, direct_mode, run, sorted_ops, rule, driverVars>>

\* one pass of the loop of solving_iteration
PDIterate ==
    /\ pc = "loop"
    /\ head_ops # << >>
    /\ IF KeysRaise(rule, heap, "s", head_ops)
       THEN /\ pc' = "raised"
            /\ last' = Call("min", "s", None, "skipped", "ZeroDivisionError")
            /\ UNCHANGED <<heap, sorted_ops, head_ops, run>>
       ELSE \E pos \in MinPositions(rule, heap, "s", head_ops) :
              LET op == head_ops[pos]
                  r == FwkDispatch(heap, "s", op)
              IN /\ heap' = r.heap
                 /\ sorted_ops' = r.sorted_ops
                 /\ last' = Call("dispatch", "s", op, Returned(r), r.exc)
                 /\ run' = [timed |-> run.timed,
                            frontier |-> run.frontier /\ IsFrontier(heap, op),
                            n |-> run.n + 1,
                            moves |-> IF Dispatched(heap, op) THEN run.moves + 1
                                      ELSE run.moves,
                            order |-> run.order]
                 /\ head_ops' = NextHeadOps(r.heap, head_ops, pos)
                 /\ pc' = IF r.exc # "none" THEN "raised" ELSE "loop"
    /\ UNCHANGED <<problem, draft, direct_mode, rule, driverVars>>

\* the end of do_solve: problem.update_solution(solution)
PDFinish ==
    /\ pc = "loop"
    /\ head_ops = << >>
    /\ pc' = "done"
    /\ last' = Call("update_solution", "s", None, "skipped", "none")
    /\ report' = UpdateSolution(report, "s")
    /\ UNCHANGED <<problem, draft, heap, direct_mode, run, sorted_ops, head_ops,
                   rule, graph, solver, bench>>

NextPD == PDStart \/ PDIterate \/ PDFinish

SpecPD == InitPD /\ [][NextPD]_vars

(***************************************************************************)
(* A solution and its copy (src/jsp)                                       *)
(***************************************************************************)
\* pc is "original" until copy() was called, "copied" after; run.n counts
\* the calls made after the copy
\* the problems a solution is copied for: the two-machine problem and the
\* one-machine problems with unit durations
CloneProblems ==
    {GoldenProblem} \cup
    { p \in Problems : Len(p) = 3 /\ \A i \in DOMAIN p : p[i].duration = 1 }

InitClone ==
    /\ problem \in CloneProblems
    /\ draft = "jsp"
    /\ heap = NewSolution(NoHeap, "s")
    /\ direct_mode \in {[w \in Owners |-> IF w = "s" THEN b ELSE FALSE] :
                          b \in BOOLEAN}
    /\ last = NoCall
    /\ run = NewRun
    /\ sorted_ops = NoSortedOps
    /\ head_ops = << >>
    /\ pc = "original"
    /\ rule = "none"
    /\ graph = EmptyGraph
    /\ solver = NoSolver
    /\ report = NoReport
    /\ bench = NoBenchMark

\* before the copy, in disjunctive-graph mode: dispatch(op) of a step not
\* yet dispatched
CloneBuild(op) ==
    /\ pc = "original"
    /\ ~ direct_mode["s"]
    /\ ~ Dispatched(heap, op)
    /\ LET r == Dispatch(heap, "s", <<op>>, TRUE)
       IN /\ heap' = r.heap
          /\ last' = Call("dispatch", "s", op, Returned(r), r.exc)
    /\ UNCHANGED <<problem, draft, direct_mode, run, solverVars, driverVars>>

\* before the copy, in direct mode: op.update_start_time(t), as a solver
\* that computes the start times itself does for every step
CloneSetStartTime(op, t) ==
    /\ pc = "original"
    /\ direct_mode["s"]
    /\ heap' = SetStartTime(heap, op, t)
    /\ last' = Call("set_start_time", "s", op, "skipped", "none")
    /\ UNCHANGED <<problem, draft, direct_mode, run, solverVars, driverVars>>

\* c = s.copy()
CloneCopy ==
    /\ pc = "original"
    /\ LET r == Copy(heap, "s", "c")
       IN /\ heap' = r.heap
          /\ last' = Call("copy", "s", None, Returned(r), r.exc)
    /\ direct_mode' = [direct_mode EXCEPT !["c"] = TRUE]
    /\ pc' = "copied"
    /\ run' = NewRun
    /\ UNCHANGED <<problem, draft, sorted_ops, head_ops, rule, driverVars>>

\* after the copy: w.dispatch(op, update_time) of any real step of w
CloneDispatch(w, op, update_time) ==
    /\ pc = "copied"
    /\ run.n < MaxCalls
    /\ TailMachineOpTerminates(heap, MachineHead(w, op))
    /\ LET r == Dispatch(heap, w, <<op>>, update_time)
       IN /\ heap' = r.heap
          /\ last' = Call("dispatch", w, op,
                          IF update_time THEN Returned(r) ELSE "skipped", r.exc)
    /\ run' = [run EXCEPT !.n = @ + 1]
    /\ UNCHANGED <<problem, draft, direct_mode, solverVars, driverVars>>

\* after the copy: a.connect_machine_op(b) on two steps of w
CloneConnectMachineOp(a, b) ==
    /\ pc = "copied"
    /\ run.n < MaxCalls
    /\ LET r == ConnectMachineOp(heap, a, b)
       IN /\ heap' = r.heap
          /\ last' = Call("connect_machine_op", a[1], b, "skipped", r.exc)
    /\ run' = [run EXCEPT !.n = @ + 1]
    /\ UNCHANGED <<problem, draft, direct_mode, solverVars, driverVars>>

\* after the copy: w.update_start_time()
CloneUpdateStartTime(w) ==
    /\ pc = "copied"
    /\ run.n < MaxCalls
    /\ LET r == UpdateStartTime(heap, w, None)
       IN /\ heap' = r.heap
          /\ last' = Call("update_start_time", w, None, Returned(r), r.exc)
    /\ run' = [run EXCEPT !.n = @ + 1]
    /\ UNCHANGED <<problem, draft, direct_mode, solverVars, driverVars>>

NextClone ==
    \/ \E op \in RealSteps("s") : CloneBuild(op)
    \/ \E op \in RealSteps("s") : \E t \in 0 .. MaxStart :
          CloneSetStartTime(op, t)
    \/ CloneCopy
    \/ \E w \in Owners : \E op \in RealSteps(w) : \E update_time \in BOOLEAN :
          CloneDispatch(w, op, update_time)
    \/ \E w \in Owners :
          \E a \in RealSteps(w) \cup Range(MachineOps(w)) : \E b \in RealSteps(w) :
             CloneConnectMachineOp(a, b)
    \/ \E w \in Owners : CloneUpdateStartTime(w)

SpecClone == InitClone /\ [][NextClone]_vars

\* w.imminent_ops on the original, or on the copy once it exists
CloneImminentOps(w) ==
    /\ w = "c" => pc = "copied"
    /\ head_ops' = ImminentOps(heap, w)
    /\ last' = Call("imminent_ops", w, None, "skipped", "none")
    /\ UNCHANGED <<problem, draft, heap, direct_mode, run, sorted_ops, pc, rule,
                   driverVars>>

NextJobChain ==
    \/ \E op \in RealSteps("s") : CloneBuild(op)
    \/ CloneCopy
    \/ \E w \in Owners : \E op \in RealSteps(w) : \E update_time \in BOOLEAN :
          CloneDispatch(w, op, update_time)
    \/ \E w \in Owners :
          \E a \in RealSteps(w) \cup Range(MachineOps(w)) : \E b \in RealSteps(w) :
             CloneConnectMachineOp(a, b)
    \/ \E w \in Owners : CloneUpdateStartTime(w)
    \/ \E w \in Owners : CloneImminentOps(w)

SpecJobChain == InitClone /\ [][NextJobChain]_vars

(***************************************************************************)
(* Calls that change the links of one solution, in either draft            *)
(***************************************************************************)
InitLinks ==
    /\ problem \in Problems
    /\ draft \in {"jsp", "jsp_fwk"}
    /\ heap = IF draft = "jsp" THEN NewSolution(NoHeap, "s")
              ELSE FwkNewSolution(NoHeap, "s")
    /\ direct_mode = [w \in Owners |-> FALSE]
    /\ last = NoCall
    /\ run = NewRun
    /\ sorted_ops = NoSortedOps
    /\ head_ops = << >>
    /\ pc = "idle"
    /\ rule = "none"
    /\ graph = EmptyGraph
    /\ solver = NoSolver
    /\ report = NoReport
    /\ bench = NoBenchMark

\* a.connect_job_op(b) on two steps of the solution (src/jsp)
LinkConnectJobOp(a, b) ==
    /\ draft = "jsp"
    /\ run.n < MaxLinks
    /\ LET r == ConnectJobOp(heap, a, b)
       IN /\ heap' = r.heap
          /\ last' = CallOn(a, "connect_job_op", "s", b, "skipped", r.exc)
    /\ run' = [run EXCEPT !.n = @ + 1]
    /\ UNCHANGED <<problem, draft, direct_mode, solverVars, driverVars>>

\* a.connect_machine_op(b) on two steps of the solution (src/jsp)
LinkConnectMachineOp(a, b) ==
    /\ draft = "jsp"
    /\ run.n < MaxLinks
    /\ LET r == ConnectMachineOp(heap, a, b)
       IN /\ heap' = r.heap
          /\ last' = CallOn(a, "connect_machine_op", "s", b, "skipped", r.exc)
    /\ run' = [run EXCEPT !.n = @ + 1]
    /\ UNCHANGED <<problem, draft, direct_mode, solverVars, driverVars>>

\* solution.dispatch(op, update_time) on any real step (src/jsp)
LinkDispatch(op, update_time) ==
    /\ draft = "jsp"
    /\ run.n < MaxLinks
    /\ TailMachineOpTerminates(heap, MachineHead("s", op))
    /\ LET r == Dispatch(heap, "s", <<op>>, update_time)
       IN /\ heap' = r.heap
          /\ last' = Call("dispatch", "s", op,
                          IF update_time THEN Returned(r) ELSE "skipped", r.exc)
    /\ run' = [run EXCEPT !.n = @ + 1,
                          !.moves = IF Dispatched(heap, op) THEN @ + 1 ELSE @]
    /\ UNCHANGED <<problem, draft, direct_mode, solverVars, driverVars>>

\* solution.dispatch(op) on any real step (src/jsp_fwk)
LinkFwkDispatch(op) ==
    /\ draft = "jsp_fwk"
    /\ run.n < MaxLinks
    /\ TailMachineOpTerminates(heap, MachineHead("s", op))
    /\ LET r == FwkDispatch(heap, "s", op)
       IN /\ heap' = r.heap
          /\ sorted_ops' = r.sorted_ops
          /\ last' = Call("dispatch", "s", op, Returned(r), r.exc)
    /\ run' = [run EXCEPT !.n = @ + 1,
                          !.moves = IF Dispatched(heap, op) THEN @ + 1 ELSE @]
    /\ UNCHANGED <<problem, draft, direct_mode, head_ops, pc, rule, driverVars>>

NextLinks ==
    \/ \E a \in Steps("s") : \E b \in Steps("s") : LinkConnectJobOp(a, b)
    \/ \E a \in Steps("s") : \E b \in Steps("s") : LinkConnectMachineOp(a, b)
    \/ \E op \in RealSteps("s") : \E update_time \in BOOLEAN :
          LinkDispatch(op, update_time)
    \/ \E op \in RealSteps("s") : LinkFwkDispatch(op)

SpecLinks == InitLinks /\ [][NextLinks]_vars

(***************************************************************************)
(* The frontier of a solution under construction (src/jsp)                 *)
(***************************************************************************)
\* the problems with unit durations, and the two-machine problem
UnitProblems ==
    {GoldenProblem} \cup { p \in Problems : \A i \in DOMAIN p : p[i].duration = 1 }

InitFrontier ==
    /\ problem \in UnitProblems
    /\ draft = "jsp"
    /\ heap = NewSolution(NoHeap, "s")
    /\ direct_mode = [w \in Owners |-> FALSE]
    /\ last = NoCall
    /\ run = NewRun
    /\ sorted_ops = NoSortedOps
    /\ head_ops = << >>
    /\ pc = "idle"
    /\ rule = "none"
    /\ graph = EmptyGraph
    /\ solver = NoSolver
    /\ report = NoReport
    /\ bench = NoBenchMark

\* solution.imminent_ops: head_ops is the list it returned
DoImminentOps ==
    /\ head_ops' = ImminentOps(heap, "s")
    /\ last' = Call("imminent_ops", "s", None, "skipped", "none")
    /\ UNCHANGED <<problem, draft, heap, direct_mode, run, sorted_ops, pc, rule, driverVars>>

NextFrontier ==
    \/ \E op \in RealSteps("s") : \E update_time \in BOOLEAN :
          DoDispatch(op, update_time)
    \/ DoImminentOps

SpecFrontier == InitFrontier /\ [][NextFrontier]_vars

(***************************************************************************)
(* Queries on a solution under construction (src/jsp)                      *)
(***************************************************************************)
\* JSProblem(ops=[])
EmptyProblem == << >>

InitQuery ==
    /\ problem \in {EmptyProblem} \cup UnitProblems
    /\ draft = "jsp"
    /\ heap = NewSolution(NoHeap, "s")
    /\ direct_mode = [w \in Owners |-> FALSE]
    /\ last = NoCall
    /\ run = NewRun
    /\ sorted_ops = NoSortedOps
    /\ head_ops = << >>
    /\ pc = "idle"
    /\ rule = "none"
    /\ graph = EmptyGraph
    /\ solver = NoSolver
    /\ report = NoReport
    /\ bench = NoBenchMark

\* solution.makespan
DoMakespan ==
    /\ last' = Call("makespan", "s", None, "skipped", Makespan(heap, "s").exc)
    /\ UNCHANGED <<problem, draft, heap, direct_mode, run, solverVars, driverVars>>

\* solution.is_feasible
DoIsFeasible ==
    /\ LET r == IsFeasible(heap, "s", direct_mode["s"])
       IN /\ heap' = r.heap
          /\ last' = Call("is_feasible", "s", None, Returned(r), r.exc)
    /\ UNCHANGED <<problem, draft, direct_mode, run, solverVars, driverVars>>

NextQuery ==
    \/ \E op \in RealSteps("s") : \E update_time \in BOOLEAN :
          DoDispatch(op, update_time)
    \/ DoUpdateStartTime
    \/ DoMakespan
    \/ DoIsFeasible

SpecQuery == InitQuery /\ [][NextQuery]_vars

(***************************************************************************)
(* connect_job_op and connect_machine_op alone (src/jsp)                   *)
(***************************************************************************)
NextConnect ==
    \/ \E a \in Steps("s") : \E b \in Steps("s") : LinkConnectJobOp(a, b)
    \/ \E a \in Steps("s") : \E b \in Steps("s") : LinkConnectMachineOp(a, b)

SpecConnect == InitFrontier /\ [][NextConnect]_vars

(***************************************************************************)
(* A DirectedGraph built by add_edge calls, and sorted                     *)
(***************************************************************************)
\* the objects used as nodes
GraphNodes == {"a", "b", "c"}

InitGraph ==
    /\ problem = EmptyProblem
    /\ draft = "jsp"
    /\ heap = NoHeap
    /\ direct_mode = [w \in Owners |-> FALSE]
    /\ last = NoCall
    /\ run = NewRun
    /\ sorted_ops = NoSortedOps
    /\ head_ops = << >>
    /\ pc = "idle"
    /\ rule = "none"
    /\ graph = EmptyGraph
    /\ solver = NoSolver
    /\ report = NoReport
    /\ bench = NoBenchMark

\* graph.add_edge(node_from, node_to)
GraphAddEdge(node_from, node_to) ==
    /\ Len(graph.edges) < MaxEdges
    /\ graph' = AddEdge(graph, node_from, node_to)
    /\ last' = Call("add_edge", "s", None, "skipped", "none")
    /\ UNCHANGED <<problem, draft, heap, direct_mode, run, solverVars, solver,
                   report, bench>>

\* graph.sort(): sorted_ops is the list it returned
GraphSort ==
    /\ sorted_ops' = [is_none |-> FALSE, ops |-> Sort(graph)]
    /\ graph' = AfterSort(graph)
    /\ last' = Call("sort", "s", None, "skipped", "none")
    /\ UNCHANGED <<problem, draft, heap, direct_mode, run, head_ops, pc, rule,
                   solver, report, bench>>

\* the weight functions passed to longest_path
Weights == [GraphNodes -> 0 .. MaxWeight]

\* graph.longest_path(node_from, node_to, w) on two nodes of the graph
GraphLongestPath(node_from, node_to, w) ==
    /\ {node_from, node_to} \subseteq Range(graph.keys)
    /\ LET r == LongestPath(graph, node_from, node_to, w)
       IN /\ graph' = r.graph
          /\ last' = Call("longest_path", "s", None, "skipped", r.exc)
    /\ UNCHANGED <<problem, draft, heap, direct_mode, run, solverVars, solver,
                   report, bench>>

NextGraph ==
    \/ \E node_from \in GraphNodes : \E node_to \in GraphNodes :
         GraphAddEdge(node_from, node_to)
    \/ GraphSort
    \/ \E node_from \in GraphNodes : \E node_to \in GraphNodes :
         \E w \in Weights : GraphLongestPath(node_from, node_to, w)

SpecGraph == InitGraph /\ [][NextGraph]_vars

(***************************************************************************)
(* A JSSolver driven by one caller thread, and its worker threads          *)
(* (src/jsp/model/solver.py)                                               *)
(***************************************************************************)
InitSolver ==
    /\ problem = EmptyProblem
    /\ draft = "jsp"
    /\ heap = NoHeap
    /\ direct_mode = [w \in Owners |-> FALSE]
    /\ last = NoCall
    /\ run = NewRun
    /\ sorted_ops = NoSortedOps
    /\ head_ops = << >>
    /\ pc = "idle"
    /\ rule = "none"
    /\ graph = EmptyGraph
    /\ \E has_problem \in BOOLEAN : solver = NewSolver(has_problem)
    /\ report = NoReport
    /\ bench = NoBenchMark

\* the workers that have been started and have not finished
ActiveThreads(s) == { t \in Threads : s.workers[t].pc \notin {"unborn", "done"} }

\* solver.solve() without a chart interval: raises when is_running or when
\* there is no problem, else sets the running flag, starts a new worker thread
\* and returns
SolverSolve ==
    /\ solver.caller = "idle"
    /\ IF solver.running \/ ~ solver.has_problem
       THEN /\ last' = Call("solve", "s", None, "skipped", "JSPException")
            /\ UNCHANGED solver
       ELSE /\ solver.thread < MaxThreads
            /\ solver' = [solver EXCEPT
                            !.running = TRUE,
                            !.thread = @ + 1,
                            !.workers[solver.thread + 1] =
                                [pc |-> "do_solve", failed |-> FALSE]]
            /\ last' = Call("solve", "s", None, "skipped", "none")
    /\ UNCHANGED <<problem, draft, heap, direct_mode, run, solverVars, graph,
                   report, bench>>

\* solver.problem = problem (None when has_problem is false)
SolverSetProblem(has_problem) ==
    /\ solver.caller = "idle"
    /\ solver' = [solver EXCEPT !.solution = "none", !.running = FALSE,
                                !.status = FALSE, !.has_problem = has_problem]
    /\ last' = Call("problem", "s", None, "skipped", "none")
    /\ UNCHANGED <<problem, draft, heap, direct_mode, run, solverVars, graph,
                   report, bench>>

\* solver.wait() up to the join: self.__thread is None before the first solve
SolverWait ==
    /\ solver.caller = "idle"
    /\ IF solver.thread = 0
       THEN /\ last' = Call("wait", "s", None, "skipped", "AttributeError")
            /\ UNCHANGED solver
       ELSE /\ solver' = [solver EXCEPT !.caller = "join"]
            /\ last' = Call("join", "s", None, "skipped", "none")
    /\ UNCHANGED <<problem, draft, heap, direct_mode, run, solverVars, graph,
                   report, bench>>

\* a join that returns although the thread is still running
SolverJoinNoWait ==
    /\ solver.caller = "join"
    /\ solver' = [solver EXCEPT !.caller = "idle"]
    /\ last' = Call("wait", "s", None, "skipped", "none")
    /\ UNCHANGED <<problem, draft, heap, direct_mode, run, solverVars, graph,
                   report, bench>>

\* self.__thread.join() returns, and wait with it: the thread has finished
SolverJoin ==
    /\ solver.caller = "join"
    /\ solver.workers[solver.thread].pc = "done"
    /\ solver' = [solver EXCEPT !.caller = "idle"]
    /\ last' = Call("wait", "s", None, "skipped", "none")
    /\ UNCHANGED <<problem, draft, heap, direct_mode, run, solverVars, graph,
                   report, bench>>

\* worker t runs do_solve: it may call update_solution with a feasible or an
\* infeasible solution (update = "none": it does not), and it returns or
\* raises JSPException or another error; the run has failed when it raises
\* or produces no solution
ThreadDoSolve(t, update, raises) ==
    /\ solver.workers[t].pc = "do_solve"
    /\ solver' = [solver EXCEPT
                    !.solution = IF update = "none" THEN @ ELSE update,
                    !.workers[t] =
                        [pc |-> CASE raises = "none" -> "else"
                                  [] raises = "JSPException" -> "except"
                                  [] OTHER -> "finally",
                         failed |-> raises # "none" \/ update = "none"]]
    /\ UNCHANGED <<problem, draft, heap, direct_mode, last, run, solverVars, graph,
                   report, bench>>

\* except JSPException: self.__status = False
ThreadExcept(t) ==
    /\ solver.workers[t].pc = "except"
    /\ solver' = [solver EXCEPT !.status = FALSE, !.workers[t].pc = "finally"]
    /\ UNCHANGED <<problem, draft, heap, direct_mode, last, run, solverVars, graph,
                   report, bench>>

\* else: self.__status = self.solution.is_feasible, an AttributeError when
\* the solution is None
ThreadElse(t) ==
    /\ solver.workers[t].pc = "else"
    /\ solver' = IF solver.solution = "none"
                 THEN [solver EXCEPT !.workers[t] =
                                         [pc |-> "finally", failed |-> TRUE]]
                 ELSE [solver EXCEPT !.status = (solver.solution = "feasible"),
                                     !.workers[t].pc = "finally"]
    /\ UNCHANGED <<problem, draft, heap, direct_mode, last, run, solverVars, graph,
                   report, bench>>

\* finally: self.__running = False, and the thread ends
ThreadFinally(t) ==
    /\ solver.workers[t].pc = "finally"
    /\ solver' = [solver EXCEPT !.running = FALSE, !.workers[t].pc = "done"]
    /\ UNCHANGED <<problem, draft, heap, direct_mode, last, run, solverVars, graph,
                   report, bench>>

NextSolver ==
    \/ SolverSolve
    \/ \E has_problem \in BOOLEAN : SolverSetProblem(has_problem)
    \/ SolverWait
    \/ SolverJoin
    \/ \E t \in Threads :
         \E update \in {"none", "feasible", "infeasible"} :
           \E raises \in {"none", "JSPException", "Error"} :
             ThreadDoSolve(t, update, raises)
    \/ \E t \in Threads : ThreadExcept(t)
    \/ \E t \in Threads : ThreadElse(t)
    \/ \E t \in Threads : ThreadFinally(t)

SpecSolver == InitSolver /\ [][NextSolver]_vars

(***************************************************************************)
(* The golden scenario: the 2 x 2 problem, dispatched in a recorded order  *)
(***************************************************************************)
InitGolden ==
    /\ problem = GoldenProblem
    /\ draft = "jsp"
    /\ heap = NewSolution(NoHeap, "s")
    /\ direct_mode = [w \in Owners |-> FALSE]
    /\ last = NoCall
    /\ run = NewRun
    /\ sorted_ops = NoSortedOps
    /\ head_ops = << >>
    /\ pc = "idle"
    /\ rule = "none"
    /\ graph = EmptyGraph
    /\ solver = NoSolver
    /\ report = NoReport
    /\ bench = NoBenchMark

\* solution.dispatch(op, update_time) on a step not dispatched before;
\* run.order records the order of the calls
GoldenDispatch(op, update_time) ==
    /\ ~ Dispatched(heap, op)
    /\ LET r == Dispatch(heap, "s", <<op>>, update_time)
       IN /\ heap' = r.heap
          /\ last' = Call("dispatch", "s", op,
                          IF update_time THEN Returned(r) ELSE "skipped", r.exc)
          /\ run' = [timed |-> run.timed /\ update_time,
                     frontier |-> run.frontier /\ IsFrontier(heap, op),
                     n |-> run.n + 1,
                     moves |-> run.moves,
                     order |-> Append(run.order, op)]
    /\ UNCHANGED <<problem, draft, direct_mode, solverVars, driverVars>>

NextGolden ==
    \/ \E op \in RealSteps("s") : \E update_time \in BOOLEAN :
          GoldenDispatch(op, update_time)
    \/ DoMakespan

SpecGolden == InitGolden /\ [][NextGolden]_vars

(***************************************************************************)
(* BenchMark (src/jsp): runner threads that solve queued cases             *)
(***************************************************************************)
InitBench ==
    /\ problem = EmptyProblem
    /\ draft = "jsp"
    /\ heap = NoHeap
    /\ direct_mode = [w \in Owners |-> FALSE]
    /\ last = NoCall
    /\ run = NewRun
    /\ sorted_ops = NoSortedOps
    /\ head_ops = << >>
    /\ pc = "idle"
    /\ rule = "none"
    /\ graph = EmptyGraph
    /\ solver = NoSolver
    /\ report = NoReport
    /\ \E num_problems \in 0 .. MaxCases : \E num_solvers \in 0 .. MaxCases :
       \E num_threads \in 1 .. MaxThreads :
          /\ num_problems * num_solvers <= MaxCases
          /\ bench = NewBenchMark(num_problems, num_solvers, num_threads)

\* list.sort(key=lambda case: case[0]): insert c behind the cases of the
\* sorted list whose id is not larger
RECURSIVE InsertCase(_, _)
InsertCase(sorted, c) ==
    IF sorted = << >> THEN <<c>>
    ELSE IF Head(sorted).id <= c.id THEN <<Head(sorted)>> \o InsertCase(Tail(sorted), c)
    ELSE <<c>> \o sorted

RECURSIVE SortCases(_, _)
SortCases(list, i) ==
    IF i = 0 THEN << >> ELSE InsertCase(SortCases(list, i - 1), list[i])

\* solver.solve(); solver.wait() on the solver of a case: do_solve may call
\* update_solution with a feasible or an infeasible solution, and returns or
\* raises; the else clause of __solving_thread sets the status from the
\* solution when do_solve returned and there is one
SolveAndWait(c, t, update, raises) ==
    [id |-> c.id,
     status |-> raises = "none" /\ update = "feasible",
     solution |-> update,
     by |-> t]

\* run, the loop that starts the runner threads: one more thread
BenchRunStart ==
    /\ bench.main \in {"ready", "starting"}
    /\ bench.started < bench.num_threads
    /\ bench' = [bench EXCEPT !.main = "starting",
                              !.started = @ + 1,
                              !.runner[bench.started + 1].pc = "get"]
    /\ UNCHANGED <<problem, draft, heap, direct_mode, last, run, solverVars, graph,
                   solver, report>>

\* run, after the loop: self.__solving_queue.join() returns when no task is
\* unfinished, then the result list is sorted
BenchRunJoin ==
    /\ bench.main \in {"ready", "starting"}
    /\ bench.started = bench.num_threads
    /\ bench.unfinished = 0
    /\ bench' = [bench EXCEPT !.main = "returned",
                              !.result = SortCases(@, Len(@))]
    /\ last' = Call("run", "s", None, "skipped", "none")
    /\ UNCHANGED <<problem, draft, heap, direct_mode, run, solverVars, graph,
                   solver, report>>

\* a get that marks the task done as soon as it is taken
RunnerGetDone(t) ==
    /\ bench.runner[t].pc = "get"
    /\ bench.queue # << >>
    /\ bench' = [bench EXCEPT !.queue = Tail(@),
                              !.unfinished = @ - 1,
                              !.runner[t] = [pc |-> "solve", case |-> Head(bench.queue)]]
    /\ UNCHANGED <<problem, draft, heap, direct_mode, last, run, solverVars, graph,
                   solver, report>>

\* __solve_one_case: i, solver = self.__solving_queue.get(), which blocks
\* while the queue is empty
RunnerGet(t) ==
    /\ bench.runner[t].pc = "get"
    /\ bench.queue # << >>
    /\ bench' = [bench EXCEPT !.queue = Tail(@),
                              !.runner[t] = [pc |-> "solve", case |-> Head(bench.queue)]]
    /\ UNCHANGED <<problem, draft, heap, direct_mode, last, run, solverVars, graph,
                   solver, report>>

\* __solve_one_case: solver.solve(...); solver.wait()
RunnerSolve(t, update, raises) ==
    /\ bench.runner[t].pc = "solve"
    /\ bench' = [bench EXCEPT !.runner[t] =
                    [pc |-> "append", case |-> SolveAndWait(@.case, t, update, raises)]]
    /\ UNCHANGED <<problem, draft, heap, direct_mode, last, run, solverVars, graph,
                   solver, report>>

\* __solve_one_case: self.__solved_cases.append((i, solver))
RunnerAppend(t) ==
    /\ bench.runner[t].pc = "append"
    /\ bench' = [bench EXCEPT !.result = Append(@, bench.runner[t].case),
                              !.runner[t].pc = "task_done"]
    /\ UNCHANGED <<problem, draft, heap, direct_mode, last, run, solverVars, graph,
                   solver, report>>

\* __solve_one_case: self.__solving_queue.task_done(), and the next pass
RunnerTaskDone(t) ==
    /\ bench.runner[t].pc = "task_done"
    /\ bench' = [bench EXCEPT !.unfinished = @ - 1,
                              !.runner[t] = [pc |-> "get", case |-> NoCase]]
    /\ UNCHANGED <<problem, draft, heap, direct_mode, last, run, solverVars, graph,
                   solver, report>>

\* the value summary_list shows for a case: the makespan of a feasible
\* solution, or 'unsolved'
CalValue(c) ==
    IF c.solution # "none" /\ c.solution = "feasible" THEN "makespan" ELSE "unsolved"

\* summary_list, called after run has returned
BenchSummaryList ==
    /\ bench.main = "returned"
    /\ bench' = [bench EXCEPT !.summary =
                    [k \in DOMAIN bench.result |->
                        [id |-> bench.result[k].id + 1,
                         cal_value |-> CalValue(bench.result[k])]]]
    /\ last' = Call("summary_list", "s", None, "skipped", "none")
    /\ UNCHANGED <<problem, draft, heap, direct_mode, run, solverVars, graph,
                   solver, report>>

\* the solutions a do_solve may report, and the ways it may end
Updates == {"none", "feasible", "infeasible"}
Endings == {"none", "JSPException", "Exception"}

NextBench ==
    \/ BenchRunStart
    \/ BenchRunJoin
    \/ \E t \in Threads : RunnerGet(t)
    \/ \E t \in Threads : \E update \in Updates : \E raises \in Endings :
          RunnerSolve(t, update, raises)
    \/ \E t \in Threads : RunnerAppend(t)
    \/ \E t \in Threads : RunnerTaskDone(t)
    \/ BenchSummaryList

SpecBench == InitBench /\ [][NextBench]_vars

(***************************************************************************)
(* Dispatch of one step or of a list of steps, with propagation (src/jsp)  *)
(***************************************************************************)
\* the lists of one or two different real steps
BatchLists ==
    { <<a>> : a \in RealSteps("s") }
    \cup { ab \in RealSteps("s") \X RealSteps("s") : ab[1] # ab[2] }

\* solution.dispatch(ops) on a step or a list of steps, none of them
\* dispatched before; run.order collects the steps in the order of dispatch
BatchDispatch(ops) ==
    /\ \A i \in DOMAIN ops : ~ Dispatched(heap, ops[i])
    /\ LET r == Dispatch(heap, "s", ops, TRUE)
       IN /\ heap' = r.heap
          /\ last' = Call("dispatch", "s", ops[1], Returned(r), r.exc)
    /\ run' = [run EXCEPT !.n = @ + 1, !.order = @ \o ops]
    /\ UNCHANGED <<problem, draft, direct_mode, solverVars, driverVars>>

NextBatch ==
    \/ \E ops \in BatchLists : BatchDispatch(ops)
    \/ DoUpdateStartTime

SpecBatch == InitFrontier /\ [][NextBatch]_vars

(***************************************************************************)
(* The disjunctive graph, defined without the code's sort                  *)
(***************************************************************************)
\* the steps a step has an edge to: its job successor and machine successor
Successors(H, o) == {H.next_job_op[o], H.next_machine_op[o]} \ {None}

\* the steps reachable from the steps of todo along the edges
RECURSIVE Reachable(_, _, _)
Reachable(H, todo, seen) ==
    IF todo \subseteq seen THEN seen
    ELSE LET new == todo \ seen
         IN Reachable(H, UNION { Successors(H, o) : o \in new }, seen \cup new)

\* no step of the solution reaches itself
Acyclic(H, w) ==
    \A o \in RealSteps(w) : o \notin Reachable(H, Successors(H, o), {})

\* every real step of the solution is dispatched
AllDispatched(H, w) == \A o \in RealSteps(w) : Dispatched(H, o)

(***************************************************************************)
(* C1                                                                      *)
(***************************************************************************)
\* C1 as stated: after any sequence of dispatch calls on undispatched real
\* steps, taken in any order, the disjunctive graph is acyclic once dispatch
\* has returned
C1_AnyOrderAcyclic ==
    (AppendOnly /\ last.call = "dispatch") => Acyclic(heap, "s")

\* C1 amended: after any sequence of dispatch calls on undispatched real
\* steps in which every step is dispatched after its job predecessor (a
\* frontier step), the disjunctive graph is acyclic once dispatch has returned
C1_FrontierOrderAcyclic ==
    (AppendOnly /\ run.frontier /\ last.call = "dispatch") => Acyclic(heap, "s")

\* a complete frontier-order run over two machines
C1_Witness ==
    /\ AppendOnly /\ run.frontier /\ last.call = "dispatch"
    /\ AllDispatched(heap, "s")
    /\ Len(MachineOps("s")) = 2

(***************************************************************************)
(* C2                                                                      *)
(***************************************************************************)
\* the step starts no earlier than its job predecessor ends (a job step as
\* predecessor asks nothing)
AfterPrevJob(H, o) ==
    (H.pre_job_op[o] # None /\ ~ IsJobSentinel(H.pre_job_op[o]))
        => H.start_time[o] >= EndTime(H, H.pre_job_op[o])

\* the step starts no earlier than its machine predecessor ends
AfterPrevMachine(H, o) ==
    H.pre_machine_op[o] # None
        => H.start_time[o] >= EndTime(H, H.pre_machine_op[o])

C3_LoopDispatchAcyclic ==
    last.call = "dispatch" =>
        /\ last.ret = "true"
        /\ HasSortedOps(sorted_ops)
        /\ Acyclic(heap, "s")

\* a loop that has dispatched every step of a problem on two machines
C3_Witness ==
    /\ pc = "done"
    /\ run.n = Len(problem)
    /\ AllDispatched(heap, "s")
    /\ Len(MachineOps("s")) = 2
    /\ Len(sorted_ops.ops) = Len(problem)

(***************************************************************************)
(* C4                                                                      *)
(***************************************************************************)
\* the steps of a machine chain, walked from its machine step
MachineChain(H, w, m) ==
    LET path == MachineWalk(H, m, << >>).path IN SubSeq(path, 2, Len(path))

\* along every machine chain each step starts no earlier than the step
\* before it starts and ends
ChainsOrdered(H, w) ==
    \A k \in DOMAIN MachineOps(w) :
        LET chain == MachineChain(H, w, MachineOps(w)[k])
        IN \A i \in 1 .. Len(chain) - 1 :
              /\ H.start_time[chain[i + 1]] >= H.start_time[chain[i]]
              /\ H.start_time[chain[i + 1]] >= EndTime(H, chain[i])

C5_EvaluationIdempotent ==
    [][(last.call = "update_start_time" /\ last'.call = "update_start_time")
          => (last'.ret = last.ret /\ heap'.start_time = heap.start_time)]_vars

\* a second successive update_start_time() that succeeded on a solution in
\* which a step waits for another, and whose state before the first call was
\* stale
C5_Witness ==
    /\ last.call = "update_start_time" /\ last.repeat /\ last.ret = "true"
    /\ ~ run.timed
    /\ \E o \in RealSteps("s") :
          heap.pre_machine_op[o] \in RealSteps("s") /\ heap.start_time[o] > 0

(***************************************************************************)
(* C6                                                                      *)
(***************************************************************************)
\* the makespan of solution w after w.update_start_time()
MakespanAfterUpdate(H, w) == Makespan(UpdateStartTime(H, w, None).heap, w).value

\* C6: clone fidelity.  For any solution, in disjunctive-graph mode with any
\* dispatched machine chains or in direct mode with explicitly assigned
\* start times, copy() followed by update_start_time() on both the original
\* and the copy yields the same makespan for both.
C6_CloneSameMakespan ==
    last.call = "copy" =>
        MakespanAfterUpdate(heap, "s") = MakespanAfterUpdate(heap, "c")

(***************************************************************************)
(* C7                                                                      *)
(***************************************************************************)
Other(w) == IF w = "s" THEN "c" ELSE "s"

\* the machine links and the start times seen through solution w
View(H, w) ==
    [o \in Steps(w) |-> <<H.pre_machine_op[o], H.next_machine_op[o],
                          H.start_time[o]>>]

\* C7: clone independence.  After c = s.copy(), every dispatch,
\* connect_machine_op or update_start_time call on one of the two solutions
\* leaves every machine link and every start time of the other, and hence
\* its makespan, unchanged.
C7_CloneIndependent ==
    [][(pc = "copied" /\ pc' = "copied")
         => /\ View(heap', Other(last'.owner)) = View(heap, Other(last'.owner))
            /\ Makespan(heap', Other(last'.owner)).value
                 = Makespan(heap, Other(last'.owner)).value]_vars

\* a call on the original after the copy changed the original's machine
\* chains, and the copy holds a machine chain of its own
C7_Witness ==
    /\ pc = "copied"
    /\ run.n > 0
    /\ last.call \in {"dispatch", "connect_machine_op"}
    /\ last.owner = "s"
    /\ last.exc = "none"
    /\ \E o \in RealSteps("c") : Dispatched(heap, o) /\ heap.start_time[o] > 0
    /\ \E o \in RealSteps("s") :
          heap.pre_machine_op[Twin("c", o)] # None
          /\ heap.pre_machine_op[o] # None
          /\ Twin("c", heap.pre_machine_op[o]) # heap.pre_machine_op[Twin("c", o)]

(***************************************************************************)
(* C8                                                                      *)
(***************************************************************************)
\* a sequence without the occurrences of x
Without(seq, x) == LET Keep(y) == y # x IN SelectSeq(seq, Keep)

\* C8: dispatching a step that is already linked in a machine chain and is
\* not its tail moves it to the tail: after the call the chain walked from
\* the machine step holds the same steps as before, the dispatched step
\* last, the others in their previous order, and no step is linked twice.
C8_RedispatchMovesToTail ==
    [][LET op == last'.op
           top == MachineHead("s", op)
           chain == MachineChain(heap, "s", top)
       IN (/\ last'.call = "dispatch"
           /\ run'.n = run.n + 1
           /\ op \in Range(chain)
           /\ chain[Len(chain)] # op)
          => /\ ~ MachineWalk(heap', top, << >>).loops
             /\ MachineChain(heap', "s", top) = Append(Without(chain, op), op)
             /\ \A o \in Range(chain) : heap'.pre_machine_op[o] # None]_vars

(***************************************************************************)
(* C9                                                                      *)
(***************************************************************************)
ChainConsistent(H, w) ==
    \A a \in Steps(w) : \A b \in Steps(w) :
        /\ H.next_machine_op[a] = b <=> H.pre_machine_op[b] = a
        /\ H.next_job_op[a] = b <=> H.pre_job_op[b] = a

\* C9: chain consistency is an invariant of every reachable state.  After
\* any sequence of connect_job_op, connect_machine_op and dispatch calls,
\* re-dispatch of a dispatched step included, for all steps a and b,
\* a.next_machine_op = b iff b.pre_machine_op = a, and a.next_job_op = b iff
\* b.pre_job_op = a.
C9_ChainConsistent == ChainConsistent(heap, "s")

(***************************************************************************)
(* C10                                                                     *)
(***************************************************************************)
DispatchedSteps(H, w) == {o \in RealSteps(w) : Dispatched(H, o)}

\* C10: after N calls of dispatch on N distinct steps not dispatched before,
\* in any order and with any update_time, exactly N real steps have a
\* machine predecessor, and each of them is reached from the machine step
\* of its own machine by next_machine_op links.
C10_DispatchedCount ==
    AppendOnly =>
        /\ Cardinality(DispatchedSteps(heap, "s")) = run.n
        /\ \A o \in DispatchedSteps(heap, "s") :
              o \in Range(MachineChain(heap, "s", MachineHead("s", o)))

\* every step of a problem on two machines was dispatched once, out of
\* frontier order and not always with update_time
C10_Witness ==
    /\ AppendOnly
    /\ last.call = "dispatch"
    /\ run.n = Len(problem)
    /\ ~ run.timed
    /\ ~ run.frontier
    /\ Len(MachineOps("s")) = 2
    /\ AllDispatched(heap, "s")

(***************************************************************************)
(* C11                                                                     *)
(***************************************************************************)
\* the positions in the job of the steps of job step j that are not dispatched
UndispatchedOf(H, w, j) ==
    { i \in DOMAIN OpsOfJob(w, j) : ~ Dispatched(H, OpsOfJob(w, j)[i]) }

\* the steps of the list that belong to the job of job step j
StepsOfJobIn(list, j) ==
    { i \in DOMAIN list : Source(list[i]).job = Source(j).job }

\* C11: imminent_ops returns, for each job with an undispatched step, exactly
\* the first step in job-chain order without machine predecessor, and
\* nothing for a job whose steps are all dispatched: at most one step per job.
C11_ImminentOpsFrontier ==
    last.call = "imminent_ops" =>
        \A k \in DOMAIN JobOps("s") :
            LET j == JobOps("s")[k]
                und == UndispatchedOf(heap, "s", j)
                got == StepsOfJobIn(head_ops, j)
            IN IF und = {} THEN got = {}
               ELSE /\ Cardinality(got) = 1
                    /\ \A i \in got :
                          \E m \in und :
                             /\ head_ops[i] = OpsOfJob("s", j)[m]
                             /\ \A n \in und : m <= n

\* imminent_ops was called when one job is all dispatched and another has
\* its first step dispatched and a later one not
C11_Witness ==
    /\ last.call = "imminent_ops"
    /\ Len(head_ops) = 1
    /\ \E k \in DOMAIN JobOps("s") :
          UndispatchedOf(heap, "s", JobOps("s")[k]) = {}
    /\ \E k \in DOMAIN JobOps("s") :
          /\ UndispatchedOf(heap, "s", JobOps("s")[k]) # {}
          /\ 1 \notin UndispatchedOf(heap, "s", JobOps("s")[k])

(***************************************************************************)
(* C12                                                                     *)
(***************************************************************************)
\* C12: a solution over a problem with zero operations has makespan 0 and
\* is_feasible true, and update_start_time on it succeeds.
C12_EmptySolution ==
    problem = EmptyProblem =>
        /\ last.call = "makespan"
             => last.exc = "none" /\ Makespan(heap, "s").value = 0
        /\ last.call = "is_feasible" => last.ret = "true"
        /\ last.call = "update_start_time" => last.ret = "true"

(***************************************************************************)
(* C13                                                                     *)
(***************************************************************************)
\* the four link fields of every step
Links(H) ==
    <<H.pre_job_op, H.next_job_op, H.pre_machine_op, H.next_machine_op>>

\* C13: self.connect_job_op(op) on steps of different jobs, and
\* self.connect_machine_op(op) on steps of different machines, raise the
\* chain-mismatch error and leave the four link fields of every step
\* unchanged.
C13_MismatchRaises ==
    [][(/\ run'.n = run.n + 1
        /\ \/ /\ last'.call = "connect_job_op"
              /\ Source(last'.self).job # Source(last'.op).job
           \/ /\ last'.call = "connect_machine_op"
              /\ Source(last'.self).machine # Source(last'.op).machine)
       => /\ last'.exc = "JSPException"
          /\ Links(heap') = Links(heap)]_vars

\* connect_job_op raised on two steps of different jobs that both had job
\* links to break
C13_Witness ==
    /\ last.call = "connect_job_op"
    /\ last.exc = "JSPException"
    /\ Source(last.self).job # Source(last.op).job
    /\ heap.next_job_op[last.self] # None
    /\ heap.pre_job_op[last.op] # None

(***************************************************************************)
(* C14                                                                     *)
(***************************************************************************)
\* the nodes a node has an edge to
GraphSuccessors(g, n) ==
    { g.edges[i][2] : i \in { j \in DOMAIN g.edges : g.edges[j][1] = n } }

\* the nodes reachable from the nodes of todo along the edges
RECURSIVE GraphReachable(_, _, _)
GraphReachable(g, todo, seen) ==
    IF todo \subseteq seen THEN seen
    ELSE LET new == todo \ seen
         IN GraphReachable(g, UNION { GraphSuccessors(g, n) : n \in new },
                           seen \cup new)

\* no node of the graph reaches itself
GraphAcyclic(g) ==
    \A n \in Range(g.keys) : n \notin GraphReachable(g, GraphSuccessors(g, n), {})

\* C14: for every graph built by any sequence of add_edge calls (none,
\* duplicate edges and self-loops included), sort returns an order iff the
\* graph is acyclic, and the empty list, which signals that there is no
\* order, otherwise.
C14_SortIffAcyclic ==
    last.call = "sort" => (sorted_ops.ops # << >> <=> GraphAcyclic(graph))

(***************************************************************************)
(* C15                                                                     *)
(***************************************************************************)
\* a machine link b -> a against the job link a -> b
TwoCycle(H, w) ==
    \E a \in RealSteps(w) : \E b \in RealSteps(w) :
        H.next_job_op[a] = b /\ H.next_machine_op[b] = a

\* C15: when the machine link b -> a exists and a is the job predecessor of
\* b, topological_sort reports no order, and update_start_time (called
\* directly, or by the dispatch that created the link) returns False and
\* leaves the start time of every step as it was before the call.
C15_TwoCycleDetected ==
    [][(/\ last'.call \in {"update_start_time", "dispatch"}
        /\ last'.ret # "skipped"
        /\ TwoCycle(heap', "s"))
       => /\ TopologicalSort(heap', "s").is_none
          /\ last'.ret = "false"
          /\ heap'.start_time = heap.start_time]_vars

\* update_start_time returned False on a 2-cycle in a solution that holds a
\* start time other than zero from an earlier pass
C15_Witness ==
    /\ last.call = "update_start_time"
    /\ last.ret = "false"
    /\ TwoCycle(heap, "s")
    /\ \E o \in RealSteps("s") : heap.start_time[o] # 0

(***************************************************************************)
(* C16                                                                     *)
(***************************************************************************)
\* C16: for every problem with durations >= 0 and every rule, the solution
\* the priority-dispatch loop leaves when all steps are dispatched passes
\* the check of is_feasible: the job-chain walk and the per-machine walk
\* over the steps sorted by start time.
C16_DispatchedFeasible ==
    (pc = "done" /\ AllDispatched(heap, "s")) => ChainsValid(heap, "s")

(***************************************************************************)
(* C17                                                                     *)
(***************************************************************************)
\* C17: for the undispatched frontier step the loop dispatches, EST computed
\* immediately before dispatch, the larger of the end time of its job
\* predecessor and the end time of the tail of its machine chain, equals its
\* start time immediately after dispatch.
C17_EstimateIsStartTime ==
    [][(last'.call = "dispatch" /\ run'.n = run.n + 1)
       => /\ IsFrontier(heap, last'.op) /\ ~ Dispatched(heap, last'.op)
          /\ last'.exc = "none"
          /\ heap'.start_time[last'.op] = EST(heap, "s", last'.op)]_vars

\* a step was dispatched behind a real step of its machine that ends after
\* its job predecessor, and starts at the end of that step
C17_Witness ==
    /\ last.call = "dispatch"
    /\ last.exc = "none"
    /\ heap.pre_machine_op[last.op] \in RealSteps("s")
    /\ heap.start_time[last.op] = EndTime(heap, heap.pre_machine_op[last.op])
    /\ heap.start_time[last.op] > EndTime(heap, heap.pre_job_op[last.op])

(***************************************************************************)
(* C18                                                                     *)
(***************************************************************************)
\* C18: under every interleaving of solve calls, the problem setter and the
\* completion of workers, at most one solving worker of a solver is active at
\* any time: a solve made while a run has not completed raises and starts no
\* second worker.
C18_OneWorker == Cardinality(ActiveThreads(solver)) <= 1

(***************************************************************************)
(* C19                                                                     *)
(***************************************************************************)
\* C19: when the worker of the latest run has finished, no other worker is
\* active, and do_solve failed in that run (it raised JSPException or another
\* error, or produced no solution), status is False, also after an earlier
\* run of the same solver finished with status True.
C19_FailedRunStatusFalse ==
    \A t \in Threads :
        (/\ t = solver.thread
         /\ solver.workers[t].pc = "done"
         /\ solver.workers[t].failed
         /\ ActiveThreads(solver) = {})
        => ~ solver.status

(***************************************************************************)
(* C20                                                                     *)
(***************************************************************************)
\* C20 as stated: at the moment solve (no chart interval) returns after it
\* started a worker, the worker has completed and is_running is False
C20_SolveReturnsAfterWorker ==
    [][(last'.call = "solve" /\ solver'.thread = solver.thread + 1)
       => /\ solver'.workers[solver'.thread].pc = "done"
          /\ ~ solver'.running]_vars

\* C20 amended: solve returns once it has started the worker; at the moment
\* a wait() called after it returns, the worker that solve started has
\* completed and is_running is False
C20_WaitReturnsAfterWorker ==
    [][(solver.caller = "join" /\ solver'.caller = "idle")
       => /\ solver'.workers[solver'.thread].pc = "done"
          /\ ~ solver'.running]_vars

\* wait has returned for a worker that went through its else clause
C20_Witness ==
    /\ last.call = "wait"
    /\ last.exc = "none"
    /\ solver.workers[solver.thread].pc = "done"
    /\ ~ solver.workers[solver.thread].failed
    /\ solver.status

(***************************************************************************)
(* C21                                                                     *)
(***************************************************************************)
\* C21: when the update_start_time run by dispatch fails because the
\* topological sort finds a cycle, dispatch raises to its caller; it never
\* returns normally.
C21_FailedPropagationRaises ==
    (last.call = "dispatch" /\ last.ret = "false") => last.exc # "none"

(***************************************************************************)
(* C22                                                                     *)
(***************************************************************************)
\* the dispatch order of the golden scenario: J0.op0, J1.op0, J0.op1, J1.op1
GoldenOrder == <<OpStep("s", 1), OpStep("s", 3), OpStep("s", 2), OpStep("s", 4)>>

\* the golden scenario has run: the four steps were dispatched in the golden
\* order, each with propagation
GoldenRun == run.order = GoldenOrder /\ run.timed

\* C22: after the golden scenario the makespan is 6.
C22_GoldenMakespan ==
    GoldenRun => /\ Makespan(heap, "s").exc = "none"
                 /\ Makespan(heap, "s").value = 6

\* makespan was read after the golden scenario
C22_Witness == GoldenRun /\ last.call = "makespan" /\ last.exc = "none"

(***************************************************************************)
(* C23                                                                     *)
(***************************************************************************)
\* C23 as stated: after the golden scenario the operation of J1 on M0 starts
\* at 5
C23_GoldenStartFive == GoldenRun => heap.start_time[OpStep("s", 4)] = 5

\* C23 amended: after the golden scenario the operation of J1 on M0 starts
\* at 4, the end of the operation of J1 on M1, and ends at 5.
C23_GoldenStartFour ==
    GoldenRun => /\ heap.start_time[OpStep("s", 4)] = 4
                 /\ EndTime(heap, OpStep("s", 4)) = 5

\* the last dispatch of the golden scenario has returned, and the step of J1
\* on M0 follows the step of J0 on M0, which ended at 3
C23_Witness ==
    /\ GoldenRun
    /\ last.call = "dispatch" /\ last.op = OpStep("s", 4) /\ last.ret = "true"
    /\ heap.pre_machine_op[OpStep("s", 4)] = OpStep("s", 1)
    /\ EndTime(heap, OpStep("s", 1)) = 3

(***************************************************************************)
(* C24                                                                     *)
(***************************************************************************)
\* C24: on a solution in which every step was dispatched from the frontier
\* with propagation, whatever the durations >= 0, is_feasible of src/jsp_fwk
\* (which trusts the cached topological order) and is_feasible of src/jsp
\* (the job-chain walk and the per-machine walk after sorting by start time)
\* return the same boolean.
C24_FlavoursAgree ==
    (pc = "done" /\ AllDispatched(heap, "s"))
    => (FwkIsFeasible(heap, "s", sorted_ops) <=> IsFeasible(heap, "s", FALSE).ret)

(***************************************************************************)
(* C25                                                                     *)
(***************************************************************************)
\* the largest sum of weights of the nodes entered along a path from n to
\* dst in an acyclic graph, MinusInf when there is no path
RECURSIVE BestFrom(_, _, _, _)
BestFrom(g, n, dst, w) ==
    IF n = dst THEN Num(0)
    ELSE LET sums == { w[s] + BestFrom(g, s, dst, w).v :
                       s \in { t \in GraphSuccessors(g, n) :
                               BestFrom(g, t, dst, w) # MinusInf } }
         IN IF sums = {} THEN MinusInf
            ELSE Num(CHOOSE m \in sums : \A k \in sums : k <= m)

\* C25: for every graph built by add_edge and every two of its nodes,
\* whether or not sort was called before and whether or not the target has
\* an outgoing edge, longest_path returns the largest weight of a path
\* between them, float('-inf') when there is none, and float('inf') when the
\* graph has no topological order.
C25_LongestPath ==
    \A node_from \in Range(graph.keys) : \A node_to \in Range(graph.keys) :
      \A w \in Weights :
        /\ LongestPath(graph, node_from, node_to, w).exc = "none"
        /\ LongestPath(graph, node_from, node_to, w).value =
              IF GraphAcyclic(graph) THEN BestFrom(graph, node_from, node_to, w)
              ELSE PlusInf

(***************************************************************************)
(* C26                                                                     *)
(***************************************************************************)
\* C26: for every problem and every rule the loop of solving_iteration runs
\* to its end: it is never left by an exception, it makes at most one pass
\* per operation, and when it is over it has made exactly one pass per
\* operation, each pass dispatched a step that was not dispatched before and
\* whose job predecessor was the job step or dispatched, the frontier list
\* is empty and every real step has a machine predecessor.
C26_LoopCompletes ==
    /\ pc # "raised"
    /\ run.n <= Len(problem)
    /\ pc = "done" => /\ run.n = Len(problem)
                      /\ run.moves = 0
                      /\ run.frontier
                      /\ head_ops = << >>
                      /\ AllDispatched(heap, "s")

StartFromPredecessors(H, o) ==
    Max(EndTime(H, H.pre_job_op[o]), EndTime(H, H.pre_machine_op[o]))

\* C28 as stated: after a call update_start_time() without a starting step
\* that returned true, the start time of every dispatched real step is the
\* larger end time of its job predecessor and its machine predecessor
C28_StartIsMaxOfPredecessors ==
    (last.call = "update_start_time" /\ last.ret = "true") =>
        \A o \in RealSteps("s") :
            Dispatched(heap, o) => heap.start_time[o] = StartFromPredecessors(heap, o)

\* a full pass returned true on a solution dispatched without propagation,
\* in which one step waits for its machine predecessor, a real step that
\* ends after the job predecessor, and another waits for its job predecessor
C28_Witness ==
    /\ last.call = "update_start_time" /\ last.ret = "true"
    /\ ~ run.timed
    /\ \E o \in RealSteps("s") :
          /\ heap.pre_machine_op[o] \in RealSteps("s")
          /\ heap.start_time[o] = EndTime(heap, heap.pre_machine_op[o])
          /\ heap.start_time[o] > EndTime(heap, heap.pre_job_op[o])
    /\ \E o \in RealSteps("s") :
          /\ Dispatched(heap, o)
          /\ heap.start_time[o] = EndTime(heap, heap.pre_job_op[o])
          /\ heap.start_time[o] > EndTime(heap, heap.pre_machine_op[o])

(***************************************************************************)
(* C29                                                                     *)
(***************************************************************************)
\* the job step j followed by the steps of its job, in the order of the
\* operations of the problem
JobChainOf(w, j) ==
    LET OfJob(o) == Source(o).job = Source(j).job
    IN <<j>> \o SelectSeq(Ops(w), OfJob)

\* the job links of solution w are those of its construction
JobChainsIntact(H, w) ==
    \A k \in DOMAIN JobOps(w) :
       LET chain == JobChainOf(w, JobOps(w)[k])
       IN /\ H.pre_job_op[chain[1]] = None
          /\ H.next_job_op[chain[Len(chain)]] = None
          /\ \A i \in 1 .. Len(chain) - 1 :
                /\ H.next_job_op[chain[i]] = chain[i + 1]
                /\ H.pre_job_op[chain[i + 1]] = chain[i]

\* C29: in every state reached by dispatch, connect_machine_op,
\* update_start_time, imminent_ops and copy, the next_job_op links from each
\* job step of the solution, and of its copy once made, lead through the
\* steps of that job in the order of the problem, and the pre_job_op links
\* lead back.
C29_JobChainImmutable ==
    /\ JobChainsIntact(heap, "s")
    /\ pc = "copied" => JobChainsIntact(heap, "c")

\* after the copy, a connect_machine_op that put a step behind another real
\* step in the machine chain of a solution in which a job has two steps
C29_Witness ==
    /\ pc = "copied"
    /\ last.call = "connect_machine_op" /\ last.exc = "none"
    /\ heap.pre_machine_op[last.op] \in RealSteps(last.owner)
    /\ \E o \in RealSteps(last.owner) : heap.pre_job_op[o] \in RealSteps(last.owner)

(***************************************************************************)
(* C30                                                                     *)
(***************************************************************************)
\* C30: in disjunctive-graph mode, is_feasible called on a solution whose
\* job links and machine links close a cycle returns False, whatever start
\* times the steps hold from earlier passes.
C30_CycleIsInfeasible ==
    (last.call = "is_feasible" /\ ~ direct_mode["s"] /\ ~ Acyclic(heap, "s"))
        => last.ret = "false"

(***************************************************************************)
(* C31                                                                     *)
(***************************************************************************)
\* C31: for every problem with durations >= 0, a run of the loop of
\* solving_iteration under rule IHH computes the key of every frontier step
\* and is never left by an exception.
C31_IHHKeyDefined ==
    rule = "IHH" =>
        /\ pc # "raised"
        /\ pc = "loop" => ~ KeysRaise(rule, heap, "s", head_ops)

(***************************************************************************)
(* C32                                                                     *)
(***************************************************************************)
\* C32: a run of do_solve with a registered callback calls it at most once,
\* and exactly once by the time the run is over; when it is called the
\* frontier list is empty, every real step is dispatched, and
\* problem.solution already is the solution passed to the callback.
C32_ReportedOnce ==
    report.callback =>
        /\ Len(report.calls) <= 1
        /\ pc \in {"done", "raised"} => Len(report.calls) = 1
        /\ report.calls # << >> =>
              /\ head_ops = << >>
              /\ AllDispatched(heap, "s")
              /\ report.calls[1].solution = "s"
              /\ report.calls[1].current = "s"

(***************************************************************************)
(* C33                                                                     *)
(***************************************************************************)
\* the places that hold the case with id i: positions of the queue, runner
\* threads that took it and have not appended it yet, positions of the
\* result list
HoldersOf(i) ==
    { <<"queue", k>> : k \in { k \in DOMAIN bench.queue : bench.queue[k].id = i } }
    \cup { <<"runner", t>> : t \in { t \in Threads : /\ bench.runner[t].case.id = i
                                                /\ bench.runner[t].pc # "task_done" } }
    \cup { <<"result", k>> : k \in { k \in DOMAIN bench.result : bench.result[k].id = i } }

\* C33: every case is at any moment in exactly one place (the queue, one
\* runner thread, or the result list), and when run has returned, for any
\* number of runner threads, no case is left in the queue or in a thread and
\* the result list holds the len(problems) * len(solvers) cases in
\* ascending order of id, each after solve and wait returned in a runner.
C33_RunReturnsAllCases ==
    /\ \A i \in 0 .. bench.cases - 1 : Cardinality(HoldersOf(i)) = 1
    /\ bench.main = "returned" =>
          /\ bench.queue = << >>
          /\ \A t \in Threads : bench.runner[t].pc \in {"unborn", "get"}
          /\ Len(bench.result) = bench.cases
          /\ \A k \in DOMAIN bench.result :
                bench.result[k].id = k - 1 /\ bench.result[k].by \in Threads

\* run has returned from a benchmark of two cases, solved by two different
\* runner threads
C33_Witness ==
    /\ bench.main = "returned"
    /\ bench.cases = 2
    /\ bench.result[1].by # bench.result[2].by

(***************************************************************************)
(* C34                                                                     *)
(***************************************************************************)
\* C34: the list summary_list returns after run has one row per case, and
\* the row of every case whose solver has status False shows 'unsolved',
\* also when do_solve reported a feasible solution before it failed.
C34_FailedRunUnsolved ==
    last.call = "summary_list" =>
        /\ Len(bench.summary) = bench.cases
        /\ \A k \in DOMAIN bench.summary :
              /\ bench.summary[k].id = k
              /\ ~ bench.result[k].status => bench.summary[k].cal_value = "unsolved"

(***************************************************************************)
(* C35                                                                     *)
(***************************************************************************)
\* the start times are those of a full update_start_time() that succeeded
Fresh(H, w) ==
    /\ UpdateStartTime(H, w, None).ret
    /\ UpdateStartTime(H, w, None).heap = H

\* a full update_start_time() would leave every start time as it is
FullUpdateChangesNothing(H, w) ==
    UpdateStartTime(H, w, None).heap.start_time = H.start_time

\* C35: from a state whose start times are those of a successful full
\* update, a dispatch of one undispatched step, or of a list of undispatched
\* steps, with propagation from the first listed step leaves every step
\* with the start time a full update_start_time() would give it.
C35_IncrementalEqualsFull ==
    [][(last'.call = "dispatch" /\ run'.n = run.n + 1 /\ Fresh(heap, "s"))
          => FullUpdateChangesNothing(heap', "s")]_vars

(***************************************************************************)
(* C36                                                                     *)
(***************************************************************************)
\* no step after o in its job chain is dispatched
RECURSIVE LaterUndispatched(_, _)
LaterUndispatched(H, o) ==
    LET n == H.next_job_op[o]
    IN n = None \/ (~ Dispatched(H, n) /\ LaterUndispatched(H, n))

\* the dispatch of op changed, among the steps dispatched before, nothing
\* but the next_machine_op link of the old tail of the machine chain
OthersUntouched(H, H1, w, op) ==
    \A o \in (RealSteps(w) \ {op}) \cup Range(MachineOps(w)) :
       (Dispatched(H, o) \/ o \in Range(MachineOps(w))) =>
          /\ H1.start_time[o] = H.start_time[o]
          /\ H1.pre_machine_op[o] = H.pre_machine_op[o]
          /\ \/ H1.next_machine_op[o] = H.next_machine_op[o]
             \/ /\ H.next_machine_op[o] = None
                /\ H1.next_machine_op[o] = op
                /\ H1.pre_machine_op[op] = o

\* C36 as stated: a dispatch of a step that is not dispatched, whose job
\* predecessor is the job step or dispatched, and whose later steps in the
\* job are not dispatched, leaves the start time and the machine links of
\* every step dispatched before as they were, but for the old tail of the
\* machine chain, whose next_machine_op becomes the step; and the makespan
\* does not decrease.
C36_DispatchLeavesOthers ==
    [][(/\ last'.call = "dispatch" /\ run'.n = run.n + 1
        /\ IsFrontier(heap, last'.op)
        /\ LaterUndispatched(heap, last'.op))
       => /\ OthersUntouched(heap, heap', "s", last'.op)
          /\ Makespan(heap', "s").value >= Makespan(heap, "s").value]_vars

\* C36 amended: from a state whose start times are those of a successful
\* full update, a dispatch of a frontier step whose later steps in the job
\* are not dispatched leaves the start time and the machine links of every
\* step dispatched before as they were, but for the old tail of the machine
\* chain, whose next_machine_op becomes the step; and the makespan does not
\* decrease.
C36_FreshDispatchLeavesOthers ==
    [][(/\ last'.call = "dispatch" /\ run'.n = run.n + 1
        /\ IsFrontier(heap, last'.op)
        /\ LaterUndispatched(heap, last'.op)
        /\ Fresh(heap, "s"))
       => /\ OthersUntouched(heap, heap', "s", last'.op)
          /\ Makespan(heap', "s").value >= Makespan(heap, "s").value]_vars

\* a run of frontier dispatches with propagation whose last step went behind
\* a real step on its machine and raised the makespan
C36_Witness ==
    /\ AppendOnly /\ run.timed /\ run.frontier
    /\ last.call = "dispatch" /\ last.ret = "true"
    /\ run.n >= 2
    /\ heap.pre_machine_op[last.op] \in RealSteps("s")
    /\ heap.next_machine_op[heap.pre_machine_op[last.op]] = last.op
    /\ heap.start_time[last.op] > 0
    /\ Makespan(heap, "s").value = EndTime(heap, last.op)

(***************************************************************************)
(* C37                                                                     *)
(***************************************************************************)
\* C37: whenever the loop of solving_iteration tests head_ops, the list it
\* has kept up by replacing the dispatched step by its next_job_op, or by
\* removing it, is the list solution.imminent_ops returns on the solution
\* as it then is, element by element.
C37_HeadOpsIsImminentOps ==
    pc = "loop" => head_ops = FwkImminentOps(heap, "s")

\* the loop after a step was replaced by its job successor and a finished
\* job was removed from in front of another one
C37_Witness ==
    /\ pc = "loop"
    /\ run.n >= 2
    /\ Len(head_ops) = 1
    /\ Len(JobOps("s")) >= 2
    /\ Source(head_ops[1]).job = Len(JobOps("s"))
    /\ heap.pre_job_op[head_ops[1]] \in RealSteps("s")

(***************************************************************************)
(* C38                                                                     *)
(***************************************************************************)
\* what graph.sort() returns inside topological_sort, the two dummy nodes
\* included
UnderlyingOrder(H, w) == Sort(BuildGraph(H, w, 1, EmptyGraph).graph)

\* o stands in the order after its predecessor p, when p is a real step
PlacedAfter(order, p, o) ==
    p \in Range(order) => IndexOf(order, p) < IndexOf(order, o)

\* C38: whenever topological_sort returns an order, graph.sort() gave the
\* dummy source first and the dummy sink last, and the order returned holds
\* every real step exactly once, no dummy node, and every step after its
\* job predecessor and after its machine predecessor.
C38_TopologicalOrder ==
    LET t == TopologicalSort(heap, "s")
        u == UnderlyingOrder(heap, "s")
    IN (t.exc = "none" /\ ~ t.is_none) =>
          /\ u[1] = SourceNode("s")
          /\ u[Len(u)] = SinkNode("s")
          /\ Len(t.ops) = Len(Ops("s"))
          /\ Range(t.ops) = RealSteps("s")
          /\ \A o \in RealSteps("s") :
                /\ heap.pre_job_op[o] \in RealSteps("s")
                      => PlacedAfter(t.ops, heap.pre_job_op[o], o)
                /\ heap.pre_machine_op[o] \in RealSteps("s")
                      => PlacedAfter(t.ops, heap.pre_machine_op[o], o)

\* an order of a fully dispatched problem on two machines in which a step
\* stands before a step listed earlier in the problem, behind which it is
\* not in its job
C38_Witness ==
    LET t == TopologicalSort(heap, "s")
    IN /\ t.exc = "none" /\ ~ t.is_none
       /\ AllDispatched(heap, "s")
       /\ Len(MachineOps("s")) = 2
       /\ t.ops # Ops("s")
       /\ \E o \in RealSteps("s") :
             /\ heap.pre_machine_op[o] \in RealSteps("s")
             /\ heap.pre_machine_op[o] # heap.pre_job_op[o]

(***************************************************************************)
(* C39                                                                     *)
(***************************************************************************)
\* one step of worker t, whatever do_solve does
ThreadStep(t) ==
    \/ \E update \in {"none", "feasible", "infeasible"} :
         \E raises \in {"none", "JSPException", "Error"} :
           ThreadDoSolve(t, update, raises)
    \/ ThreadExcept(t)
    \/ ThreadElse(t)
    \/ ThreadFinally(t)

\* a started worker thread is scheduled until it ends, and do_solve returns
\* or raises
SpecSolverFair == SpecSolver /\ \A t \in Threads : WF_vars(ThreadStep(t))

\* C39, second half: is_running is true from the moment solve has started a
\* worker until that worker has finished, whatever the caller does meanwhile.
C39_RunningWhileWorker ==
    \A t \in Threads :
        solver.workers[t].pc \notin {"unborn", "done"} => solver.running

\* C39, first half: every solve that started a worker is eventually followed
\* by is_running = False, whether do_solve returns, raises JSPException or
\* raises another error.
C39_EventuallyNotRunning ==
    \A t \in Threads :
        (solver.workers[t].pc = "do_solve") ~> (~ solver.running)

====
